---- MODULE Spec2Model ----
(***************************************************************************)
(* A model of the JSON Typedef validator of json-typedef-go.               *)
(*                                                                         *)
(* The recursive function validate (validate.go) is unfolded into a        *)
(* small-step machine: `stack' is the Go call stack of validate, one       *)
(* record per activation, and every action executes the code of one        *)
(* activation between two points where control leaves it (a recursive      *)
(* call, a return).  Go's unspecified map iteration order is the           *)
(* nondeterministic choice of the next key of a `range' loop.              *)
(*                                                                         *)
(* A caller validates the same schema and instance twice, as               *)
(* ExampleValidate_maxErrors does: once with the chosen settings and once  *)
(* with MaxErrors = 0, so that the two results can be compared.            *)
(***************************************************************************)
EXTENDS Integers, Sequences, FiniteSets, TLC

(***************************************************************************)
(* Bounds of the model.                                                    *)
(***************************************************************************)
\* settings.MaxDepth ranges over 0..MaxDepthLimit
MaxDepthLimit == 3
\* settings.MaxErrors ranges over 0..MaxErrorsLimit
MaxErrorsLimit == 3
\* arrays of nulls of length 0..MaxArrayLen are among the instances
MaxArrayLen == 3
\* number of schema frames at which an unbounded ref recursion exhausts the
\* goroutine stack
MaxFrames == 6

(***************************************************************************)
(* Small helpers on sequences and maps.                                    *)
(***************************************************************************)
Last(s) == s[Len(s)]
Front(s) == SubSeq(s, 1, Len(s) - 1)
Prefix(s, n) == SubSeq(s, 1, n)
Min(a, b) == IF a < b THEN a ELSE b
IsPrefix(p, s) == Len(p) <= Len(s) /\ SubSeq(s, 1, Len(p)) = p

\* An optional value (a Go pointer or a nil-able map or slice) is <<>> when
\* nil and <<v>> when set.
Nil == <<>>
Some(v) == <<v>>
IsSet(o) == o # <<>>
\* keys of a nil-able map; ranging over a nil map iterates nothing
Keys(o) == IF IsSet(o) THEN DOMAIN o[1] ELSE {}
\* m[k] with the comma-ok idiom
HasKey(o, k) == k \in Keys(o)

(***************************************************************************)
(* schema.go: the Schema struct and its forms.                             *)
(***************************************************************************)
\* the zero value of Schema
ZeroSchema ==
    [Definitions |-> Nil, Metadata |-> Nil, Nullable |-> FALSE, Ref |-> Nil,
     Type |-> "", Enum |-> Nil, Elements |-> Nil, Properties |-> Nil,
     OptionalProperties |-> Nil, AdditionalProperties |-> FALSE,
     Values |-> Nil, Discriminator |-> "", Mapping |-> Nil]

TypeBoolean == "boolean"
TypeFloat32 == "float32"
TypeFloat64 == "float64"
TypeInt8 == "int8"
TypeUint8 == "uint8"
TypeInt16 == "int16"
TypeUint16 == "uint16"
TypeInt32 == "int32"
TypeUint32 == "uint32"
TypeString == "string"
TypeTimestamp == "timestamp"

FormEmpty == "empty"
FormRef == "ref"
FormType == "type"
FormEnum == "enum"
FormElements == "elements"
FormProperties == "properties"
FormValues == "values"
FormDiscriminator == "discriminator"

\* a Form that takes a schema without form keywords for the Properties form
Form_EmptyAsProperties(s) ==
    IF IsSet(s.Ref) THEN FormRef
    ELSE IF s.Type # "" THEN FormType
    ELSE IF IsSet(s.Enum) THEN FormEnum
    ELSE IF IsSet(s.Elements) THEN FormElements
    ELSE IF IsSet(s.Values) THEN FormValues
    ELSE IF IsSet(s.Mapping) THEN FormDiscriminator
    ELSE FormProperties

\* Schema.Form
Form(s) ==
    IF IsSet(s.Ref) THEN FormRef
    ELSE IF s.Type # "" THEN FormType
    ELSE IF IsSet(s.Enum) THEN FormEnum
    ELSE IF IsSet(s.Elements) THEN FormElements
    ELSE IF IsSet(s.Properties) \/ IsSet(s.OptionalProperties) THEN FormProperties
    ELSE IF IsSet(s.Values) THEN FormValues
    ELSE IF IsSet(s.Mapping) THEN FormDiscriminator
    ELSE FormEmpty

(***************************************************************************)
(* Decoded JSON instances (interface{} values of encoding/json).           *)
(* A float64 n is kept as its integral part hi * 2^16 + lo (0 <= lo <      *)
(* 2^16) and its fractional part in tenths, so that the uint32 range fits  *)
(* the integers of the model checker.                                      *)
(***************************************************************************)
Word == 65536
Num(hi, lo, tenths) == [hi |-> hi, lo |-> lo, frac |-> tenths]
ZeroNum == Num(0, 0, 0)

JBlank == [kind |-> "null", b |-> FALSE, n |-> ZeroNum, s |-> "",
           items |-> <<>>, fields |-> <<>>]
JNull == JBlank
JBool(b) == [JBlank EXCEPT !.kind = "bool", !.b = b]
JNumber(n) == [JBlank EXCEPT !.kind = "number", !.n = n]
\* the float64 of an integer that fits the model checker
JInt(i) == JNumber(Num(i \div Word, i % Word, 0))
JString(s) == [JBlank EXCEPT !.kind = "string", !.s = s]
JArray(items) == [JBlank EXCEPT !.kind = "array", !.items = items]
JObject(fields) == [JBlank EXCEPT !.kind = "object", !.fields = fields]
EmptyMap == [k \in {} |-> JNull]

\* the type assertions instance.(T) and the comparison instance == nil
IsNull(j) == j.kind = "null"
IsBool(j) == j.kind = "bool"
IsFloat64(j) == j.kind = "number"
IsString(j) == j.kind = "string"
IsArray(j) == j.kind = "array"
IsObject(j) == j.kind = "object"

(***************************************************************************)
(* validate.go: validateInt and the library calls of the type checks.      *)
(***************************************************************************)
\* i < j on integral parts
NumLess(a, b) == a.hi < b.hi \/ (a.hi = b.hi /\ a.lo < b.lo)

\* math.Modf: the integral and the fractional part of n
Modf(n) == [i |-> Num(n.hi, n.lo, 0), f |-> n.frac]

\* a validateInt whose bounds are exclusive
ValidateIntFails_Exclusive(instance, min, max) ==
    IF IsFloat64(instance)
    THEN LET m == Modf(instance.n)
         IN  m.f # 0 \/ ~NumLess(min, m.i) \/ ~NumLess(m.i, max)
    ELSE TRUE

\* the condition under which validateInt pushes an error
ValidateIntFails(instance, min, max) ==
    IF IsFloat64(instance)
    THEN LET m == Modf(instance.n)
         IN  m.f # 0 \/ NumLess(m.i, min) \/ NumLess(max, m.i)
    ELSE TRUE

\* strings of the model that time.Parse(time.RFC3339, s) accepts
RFC3339Strings == {"1985-04-12T23:20:50.52Z"}
TimeParseFails(s) == s \notin RFC3339Strings

\* whether an element of schema.Enum equals s
EnumHas(enum, s) == \E x \in 1..Len(enum) : enum[x] = s

\* the condition under which the Type form pushes an error
TypeFails(schema, instance) ==
    CASE schema.Type = TypeBoolean -> ~IsBool(instance)
      [] schema.Type \in {TypeFloat32, TypeFloat64} -> ~IsFloat64(instance)
      [] schema.Type = TypeInt8 ->
            ValidateIntFails(instance, Num(-1, Word - 128, 0), Num(0, 127, 0))
      [] schema.Type = TypeUint8 ->
            ValidateIntFails(instance, Num(0, 0, 0), Num(0, 255, 0))
      [] schema.Type = TypeInt16 ->
            ValidateIntFails(instance, Num(-1, Word - 32768, 0), Num(0, 32767, 0))
      [] schema.Type = TypeUint16 ->
            ValidateIntFails(instance, Num(0, 0, 0), Num(0, 65535, 0))
      [] schema.Type = TypeInt32 ->
            ValidateIntFails(instance, Num(-32768, 0, 0), Num(32767, 65535, 0))
      [] schema.Type = TypeUint32 ->
            ValidateIntFails(instance, Num(0, 0, 0), Num(65535, 65535, 0))
      [] schema.Type = TypeString -> ~IsString(instance)
      [] schema.Type = TypeTimestamp ->
            IF IsString(instance) THEN TimeParseFails(instance.s) ELSE TRUE
      [] OTHER -> FALSE

\* the condition under which the Enum form pushes an error
EnumFails(schema, instance) ==
    IF IsString(instance) THEN ~EnumHas(schema.Enum[1], instance.s) ELSE TRUE

(***************************************************************************)
(* validate.go: validateState and its methods.                             *)
(***************************************************************************)
ErrNil == "nil"
ErrMaxDepthExceeded == "jtd: max depth exceeded"
errMaxErrorsReached == "jtd internal: max errors reached"

pushInstanceToken(tokens, token) == Append(tokens, token)
\* a pop that leaves the token where it is
popInstanceToken_Keep(tokens) == tokens
popInstanceToken(tokens) == Front(tokens)
\* a push that opens a frame for the token
pushSchemaToken_NewFrame(frames, token) == Append(frames, <<token>>)

pushSchemaToken(frames, token) ==
    [frames EXCEPT ![Len(frames)] = Append(@, token)]
\* a pop that drops the top frame and not its last token
popSchemaToken_Frame(frames) == Front(frames)
popSchemaToken(frames) == [frames EXCEPT ![Len(frames)] = Front(@)]

\* a ValidateError with the two paths taken for one another
ValidateError_Swapped(instanceTokens, schemaTokens) ==
    [InstancePath |-> schemaTokens, SchemaPath |-> instanceTokens]

ValidateError(instanceTokens, schemaTokens) ==
    [InstancePath |-> instanceTokens, SchemaPath |-> schemaTokens]

\* a pushError that puts the new error in front of the buffer
pushError_Prepend(errors, instanceTokens, frames) ==
    <<ValidateError(instanceTokens, Last(frames))>> \o errors

\* pushError: the error buffer after the append ...
pushError(errors, instanceTokens, frames) ==
    Append(errors, ValidateError(instanceTokens, Last(frames)))
\* a pushError that stops one error too late
pushErrorReturn_OneLate(errors, settings) ==
    IF Len(errors) = settings.MaxErrors + 1 THEN errMaxErrorsReached ELSE ErrNil

\* ... and the value pushError returns, given the buffer after the append
pushErrorReturn(errors, settings) ==
    IF Len(errors) = settings.MaxErrors THEN errMaxErrorsReached ELSE ErrNil

\* a Ref form that never checks the depth
DepthExceeded_Never(frames, settings) == FALSE

\* the check of the Ref form before a ref is followed
DepthExceeded(frames, settings) == Len(frames) = settings.MaxDepth

\* state.Root.Definitions[name]; a missing key yields the zero Schema
Definition(root, name) ==
    IF HasKey(root.Definitions, name) THEN root.Definitions[1][name]
    ELSE ZeroSchema

\* strconv.Itoa for the indices of the model
Itoa(i) == CASE i = 0 -> "0" [] i = 1 -> "1" [] i = 2 -> "2" [] i = 3 -> "3"
             [] i = 4 -> "4" [] i = 5 -> "5" [] OTHER -> "6"

(***************************************************************************)
(* The schema checker: Schema.Validate and Schema.ValidateWithRoot.  A     *)
(* range loop over a map returns the error of the first entry that fails,  *)
(* in an order the runtime picks, so the checker is computed as the set of *)
(* the values it can return.                                               *)
(***************************************************************************)
ErrInvalidForm == "jtd: invalid form"
ErrNonRootDefinition == "jtd: non-root definitions"
ErrNoSuchDefinition == "jtd: ref to non-existent definition"
ErrInvalidType == "jtd: invalid type"
ErrEmptyEnum == "jtd: empty enum"
ErrRepeatedEnumValue == "jtd: enum contains repeated values"
ErrSharedProperty == "jtd: properties and optionalProperties share property"
ErrNonPropertiesMapping == "jtd: mapping value not of properties form"
ErrMappingRepeatedDiscriminator == "jtd: mapping re-specifies discriminator property"
ErrNullableMapping == "jtd: mapping allows for nullable values"

\* ref type enum elements properties optionalProperties additionalProperties
\* values discriminator mapping
formSignature(s) ==
    <<IsSet(s.Ref), s.Type # "", IsSet(s.Enum), IsSet(s.Elements),
      IsSet(s.Properties), IsSet(s.OptionalProperties), s.AdditionalProperties,
      IsSet(s.Values), s.Discriminator # "", IsSet(s.Mapping)>>

\* a table that lacks the row of the Values form
validForms_NoValues ==
    << <<FALSE, FALSE, FALSE, FALSE, FALSE, FALSE, FALSE, FALSE, FALSE, FALSE>>,
       <<TRUE, FALSE, FALSE, FALSE, FALSE, FALSE, FALSE, FALSE, FALSE, FALSE>>,
       <<FALSE, TRUE, FALSE, FALSE, FALSE, FALSE, FALSE, FALSE, FALSE, FALSE>>,
       <<FALSE, FALSE, TRUE, FALSE, FALSE, FALSE, FALSE, FALSE, FALSE, FALSE>>,
       <<FALSE, FALSE, FALSE, TRUE, FALSE, FALSE, FALSE, FALSE, FALSE, FALSE>>,
       <<FALSE, FALSE, FALSE, FALSE, TRUE, FALSE, FALSE, FALSE, FALSE, FALSE>>,
       <<FALSE, FALSE, FALSE, FALSE, FALSE, TRUE, FALSE, FALSE, FALSE, FALSE>>,
       <<FALSE, FALSE, FALSE, FALSE, TRUE, TRUE, FALSE, FALSE, FALSE, FALSE>>,
       <<FALSE, FALSE, FALSE, FALSE, TRUE, FALSE, TRUE, FALSE, FALSE, FALSE>>,
       <<FALSE, FALSE, FALSE, FALSE, FALSE, TRUE, TRUE, FALSE, FALSE, FALSE>>,
       <<FALSE, FALSE, FALSE, FALSE, TRUE, TRUE, TRUE, FALSE, FALSE, FALSE>>,
       <<FALSE, FALSE, FALSE, FALSE, FALSE, FALSE, FALSE, FALSE, TRUE, TRUE>> >>

validForms ==
    << <<FALSE, FALSE, FALSE, FALSE, FALSE, FALSE, FALSE, FALSE, FALSE, FALSE>>,
       <<TRUE, FALSE, FALSE, FALSE, FALSE, FALSE, FALSE, FALSE, FALSE, FALSE>>,
       <<FALSE, TRUE, FALSE, FALSE, FALSE, FALSE, FALSE, FALSE, FALSE, FALSE>>,
       <<FALSE, FALSE, TRUE, FALSE, FALSE, FALSE, FALSE, FALSE, FALSE, FALSE>>,
       <<FALSE, FALSE, FALSE, TRUE, FALSE, FALSE, FALSE, FALSE, FALSE, FALSE>>,
       <<FALSE, FALSE, FALSE, FALSE, TRUE, FALSE, FALSE, FALSE, FALSE, FALSE>>,
       <<FALSE, FALSE, FALSE, FALSE, FALSE, TRUE, FALSE, FALSE, FALSE, FALSE>>,
       <<FALSE, FALSE, FALSE, FALSE, TRUE, TRUE, FALSE, FALSE, FALSE, FALSE>>,
       <<FALSE, FALSE, FALSE, FALSE, TRUE, FALSE, TRUE, FALSE, FALSE, FALSE>>,
       <<FALSE, FALSE, FALSE, FALSE, FALSE, TRUE, TRUE, FALSE, FALSE, FALSE>>,
       <<FALSE, FALSE, FALSE, FALSE, TRUE, TRUE, TRUE, FALSE, FALSE, FALSE>>,
       <<FALSE, FALSE, FALSE, FALSE, FALSE, FALSE, FALSE, TRUE, FALSE, FALSE>>,
       <<FALSE, FALSE, FALSE, FALSE, FALSE, FALSE, FALSE, FALSE, TRUE, TRUE>> >>

\* formOk = formOk || reflect.DeepEqual(formSignature, form)
formOk(s) == \E x \in DOMAIN validForms : validForms[x] = formSignature(s)

validTypes ==
    {TypeBoolean, TypeFloat32, TypeFloat64, TypeInt8, TypeUint8, TypeInt16,
     TypeUint16, TypeInt32, TypeUint32, TypeString, TypeTimestamp}

\* the statements b follow the statements a: b runs when a returned nothing
Then(a, b) == (a \ {ErrNil}) \cup (IF ErrNil \in a THEN b ELSE {})

\* a range loop that runs no iteration
RangeOutcomes_Skipped(outs) == {ErrNil}

\* a range loop whose iterations can return the values in outs: any failing
\* iteration can come first, and the loop ends when none fails
RangeOutcomes(outs) ==
    UNION {o \ {ErrNil} : o \in outs}
       \cup (IF \A o \in outs : ErrNil \in o THEN {ErrNil} ELSE {})

\* the checks on s.Type
CheckType(s) ==
    IF s.Type # "" /\ s.Type \notin validTypes THEN {ErrInvalidType} ELSE {ErrNil}

\* the checks on s.Enum
CheckEnum(s) ==
    IF ~IsSet(s.Enum) THEN {ErrNil}
    ELSE LET enum == s.Enum[1]
         IN  IF Len(enum) = 0 THEN {ErrEmptyEnum}
             ELSE IF \E x, y \in 1..Len(enum) : x < y /\ enum[x] = enum[y]
             THEN {ErrRepeatedEnumValue}
             ELSE {ErrNil}

\* the check on s.Ref
CheckRef(s, root) ==
    IF IsSet(s.Ref) /\ ~HasKey(root.Definitions, s.Ref[1])
    THEN {ErrNoSuchDefinition} ELSE {ErrNil}

\* a loop over the properties that does not look at optionalProperties
CheckShared_Never(s, k) == {ErrNil}

\* if _, ok := s.OptionalProperties[k]; ok { return ErrSharedProperty }
CheckShared(s, k) ==
    IF HasKey(s.OptionalProperties, k) THEN {ErrSharedProperty} ELSE {ErrNil}

\* checks on a mapping value that look at nullable first
CheckMapping_NullableFirst(m, discriminator) ==
    IF m.Nullable THEN {ErrNullableMapping}
    ELSE IF Form(m) # FormProperties THEN {ErrNonPropertiesMapping}
    ELSE IF HasKey(m.Properties, discriminator) THEN {ErrMappingRepeatedDiscriminator}
    ELSE IF HasKey(m.OptionalProperties, discriminator)
    THEN {ErrMappingRepeatedDiscriminator}
    ELSE {ErrNil}

\* the checks on a mapping value m after its own check passed
CheckMapping(m, discriminator) ==
    IF Form(m) # FormProperties THEN {ErrNonPropertiesMapping}
    ELSE IF HasKey(m.Properties, discriminator) THEN {ErrMappingRepeatedDiscriminator}
    ELSE IF HasKey(m.OptionalProperties, discriminator)
    THEN {ErrMappingRepeatedDiscriminator}
    ELSE IF m.Nullable THEN {ErrNullableMapping}
    ELSE {ErrNil}

RECURSIVE ValidateWithRoot(_, _, _)
\* the values s.ValidateWithRoot(isRoot, root) can return
ValidateWithRoot(s, isRoot, root) ==
    LET sub(o) == IF IsSet(o) THEN ValidateWithRoot(o[1], FALSE, root) ELSE {ErrNil}
        each(m, k) == ValidateWithRoot(m[1][k], FALSE, root)
        definitions ==
            RangeOutcomes({each(s.Definitions, k) : k \in Keys(s.Definitions)})
        properties ==
            RangeOutcomes({Then(each(s.Properties, k), CheckShared(s, k)) :
                             k \in Keys(s.Properties)})
        optionalProperties ==
            RangeOutcomes({each(s.OptionalProperties, k) :
                             k \in Keys(s.OptionalProperties)})
        mapping ==
            RangeOutcomes({Then(each(s.Mapping, k),
                                CheckMapping(s.Mapping[1][k], s.Discriminator)) :
                             k \in Keys(s.Mapping)})
    IN  IF ~formOk(s) THEN {ErrInvalidForm}
        ELSE IF IsSet(s.Definitions) /\ ~isRoot THEN {ErrNonRootDefinition}
        ELSE Then(definitions,
             Then(CheckRef(s, root),
             Then(CheckType(s),
             Then(CheckEnum(s),
             Then(sub(s.Elements),
             Then(properties,
             Then(optionalProperties,
             Then(sub(s.Values), mapping))))))))

\* func (s Schema) Validate() error
Validate(s) == ValidateWithRoot(s, TRUE, s)

\* a decoder that keeps the presence of the keyword, as a *bool would
UnmarshalAdditionalProperties_Presence(s, given) ==
    [s EXCEPT !.AdditionalProperties = (given # "absent")]

\* encoding/json on the field AdditionalProperties bool: the keyword of the
\* document is absent, false or true
UnmarshalAdditionalProperties(s, given) ==
    [s EXCEPT !.AdditionalProperties = (given = "true")]

(***************************************************************************)
(* The schemas and instances the validator is run on.                      *)
(***************************************************************************)
TypeSchema(t) == [ZeroSchema EXCEPT !.Type = t]
RefSchema(name) == [ZeroSchema EXCEPT !.Ref = Some(name)]
ElementsSchema(sub) == [ZeroSchema EXCEPT !.Elements = Some(sub)]
ValuesSchema(sub) == [ZeroSchema EXCEPT !.Values = Some(sub)]
PropertiesSchema(props) == [ZeroSchema EXCEPT !.Properties = Some(props)]
WithOptional(schema, props) == [schema EXCEPT !.OptionalProperties = Some(props)]
WithDefinitions(schema, defs) == [schema EXCEPT !.Definitions = Some(defs)]
NullableOf(schema) == [schema EXCEPT !.Nullable = TRUE]

\* README.md, Basic Usage
ReadmeSchema ==
    PropertiesSchema(("name" :> TypeSchema(TypeString))
                  @@ ("age" :> TypeSchema(TypeUint32))
                  @@ ("phones" :> ElementsSchema(TypeSchema(TypeString))))
ReadmeOk ==
    JObject(("name" :> JString("John Doe")) @@ ("age" :> JInt(43))
         @@ ("phones" :> JArray(<<JString("+44 1234567"), JString("+44 2345678")>>)))
ReadmeBad ==
    JObject(("age" :> JString("43"))
         @@ ("phones" :> JArray(<<JString("+44 1234567"), JInt(442345678)>>)))

\* validate_test.go, TestMaxErrors
BoolElements == ElementsSchema(TypeSchema(TypeBoolean))

\* validate_test.go, ExampleValidate_maxDepth
LoopSchema == WithDefinitions(RefSchema("loop"), "loop" :> RefSchema("loop"))

\* a discriminator with one branch
TaggedSchema ==
    [ZeroSchema EXCEPT !.Discriminator = "k",
        !.Mapping = Some("a" :> PropertiesSchema("x" :> TypeSchema(TypeString)))]

\* a branch whose property is an object that declares no key
DeepTaggedSchema ==
    [ZeroSchema EXCEPT !.Discriminator = "k",
        !.Mapping = Some("a" :> PropertiesSchema("x" :> PropertiesSchema(EmptyMap)))]

\* a required and an optional property
PairSchema ==
    WithOptional(PropertiesSchema("a" :> TypeSchema(TypeString)),
                 "b" :> TypeSchema(TypeBoolean))

\* a linked list: a cycle of refs that consumes the instance
ListNode ==
    WithOptional(PropertiesSchema("a" :> TypeSchema(TypeString)),
                 "b" :> RefSchema("node"))
ListSchema == WithDefinitions(RefSchema("node"), "node" :> ListNode)

\* a tree: a cycle of refs through elements
TreeSchema ==
    WithDefinitions(RefSchema("tree"), "tree" :> ElementsSchema(RefSchema("tree")))

\* a chain of two refs without a cycle
ChainSchema ==
    WithDefinitions(RefSchema("p"),
        ("p" :> RefSchema("q")) @@ ("q" :> TypeSchema(TypeString)))

\* a required property that loops next to one that fails
LoopPropSchema ==
    WithDefinitions(
        PropertiesSchema(("a" :> TypeSchema(TypeString)) @@ ("b" :> RefSchema("loop"))),
        "loop" :> RefSchema("loop"))

TypeNames ==
    {TypeBoolean, TypeFloat32, TypeFloat64, TypeInt8, TypeUint8, TypeInt16,
     TypeUint16, TypeInt32, TypeUint32, TypeString, TypeTimestamp}

BaseSchemas ==
    {ZeroSchema, ReadmeSchema, BoolElements, LoopSchema, TaggedSchema,
     DeepTaggedSchema, ValuesSchema(TaggedSchema),
     PairSchema, [PairSchema EXCEPT !.AdditionalProperties = TRUE],
     ListSchema, TreeSchema, ChainSchema, LoopPropSchema,
     [ZeroSchema EXCEPT !.Enum = Some(<<"a", "b">>)],
     ValuesSchema(TypeSchema(TypeBoolean)),
     ValuesSchema(PairSchema),
     ElementsSchema(PairSchema),
     WithDefinitions(ZeroSchema, "loop" :> RefSchema("loop")),
     [ZeroSchema EXCEPT !.Metadata = Some("a" :> JNull)]}
    \cup {TypeSchema(t) : t \in TypeNames}

\* schemas of every form with nullable set, at the root or below it
NullableSchemas ==
    {NullableOf(s) : s \in {ZeroSchema, PairSchema, LoopSchema, TaggedSchema,
                            TypeSchema(TypeBoolean), BoolElements,
                            [ZeroSchema EXCEPT !.Enum = Some(<<"a", "b">>)],
                            ValuesSchema(TypeSchema(TypeBoolean))}}
    \cup {ElementsSchema(NullableOf(TypeSchema(TypeBoolean)))}

\* a type name that is not one of the eleven
BadType == TypeSchema("nonsense")

\* a discriminator "k" with the mapping given
Tagged(mapping) == [ZeroSchema EXCEPT !.Discriminator = "k", !.Mapping = Some(mapping)]

\* schemas that Schema.Validate rejects: the validator may be handed them
MalformedSchemas ==
    {RefSchema("d"),
     WithDefinitions(ElementsSchema(RefSchema("e")), "d" :> TypeSchema(TypeString)),
     ValuesSchema(WithDefinitions(RefSchema("d"), "d" :> BadType)),
     [RefSchema("loop") EXCEPT !.Type = TypeString],
     BadType,
     [ZeroSchema EXCEPT !.Enum = Some(<<>>)],
     [PropertiesSchema("a" :> BadType) EXCEPT !.Elements = Some(ZeroSchema)],
     [ZeroSchema EXCEPT !.AdditionalProperties = TRUE],
     [ZeroSchema EXCEPT !.Discriminator = "k"],
     [ZeroSchema EXCEPT !.Mapping = Some("a" :> PairSchema)],
     Tagged("a" :> TypeSchema(TypeString)),
     Tagged("a" :> PropertiesSchema("k" :> TypeSchema(TypeBoolean))),
     WithDefinitions(Tagged("a" :> RefSchema("d")), "d" :> Tagged("a" :> RefSchema("d")))}

Schemas == BaseSchemas \cup NullableSchemas \cup MalformedSchemas

NullArrays == {JArray([i \in 1..n |-> JNull]) : n \in 0..MaxArrayLen}

Instances ==
    {JNull, JBool(TRUE), JInt(43), JNumber(Num(0, 1, 5)), JInt(-1),
     JString("a"), JString("1985-04-12T23:20:50.52Z"),
     ReadmeOk, ReadmeBad,
     JObject(EmptyMap),
     JObject(("a" :> JInt(1)) @@ ("b" :> JInt(1))),
     JObject(("a" :> JString("a")) @@ ("b" :> JBool(TRUE)) @@ ("c" :> JNull)),
     JObject(("k" :> JString("a")) @@ ("x" :> JString("y"))),
     JObject(("k" :> JString("a")) @@ ("x" :> JString("y")) @@ ("extra" :> JInt(1))),
     JObject(("k" :> JString("b"))),
     JObject(("k" :> JInt(1))),
     JObject(("k" :> JString("a")) @@ ("x" :> JObject("k" :> JString("b")))),
     JObject(("p" :> JObject("k" :> JInt(1))) @@ ("q" :> JObject("k" :> JString("b")))),
     JObject(("a" :> JInt(1))
          @@ ("b" :> JObject(("a" :> JInt(1)) @@ ("b" :> JObject("c" :> JNull))))),
     JArray(<<JBool(TRUE), JNull, JArray(<<JInt(1)>>)>>),
     JArray(<<JObject("b" :> JNull), JObject("a" :> JNull)>>)}
    \cup NullArrays

\* the settings a caller may pass (WithMaxDepth, WithMaxErrors)
SettingsSet == [MaxDepth : 0..MaxDepthLimit, MaxErrors : 0..MaxErrorsLimit]

(***************************************************************************)
(* The schemas the checker is run on.                                      *)
(***************************************************************************)
RECURSIVE SubSchemas(_)
\* s and the schemas nested in it, at any depth
SubSchemas(s) ==
    LET held(o) == {o[1][k] : k \in Keys(o)}
        direct == held(s.Definitions) \cup held(s.Properties)
                     \cup held(s.OptionalProperties) \cup held(s.Mapping)
                     \cup (IF IsSet(s.Elements) THEN {s.Elements[1]} ELSE {})
                     \cup (IF IsSet(s.Values) THEN {s.Values[1]} ELSE {})
    IN  {s} \cup UNION {SubSchemas(n) : n \in direct}

\* the presence of ref, type, enum, elements, properties, optionalProperties,
\* values, discriminator and mapping; additionalProperties comes from the
\* document
Presences == [1..9 -> BOOLEAN]

\* a schema with the keywords of p present; when flawed, each keyword has a
\* value that breaks a rule other than the one on forms
Keyworded(p, flawed) ==
    LET sub == IF flawed THEN BadType ELSE ZeroSchema
    IN  [ZeroSchema EXCEPT
            !.Definitions = IF p[1] /\ ~flawed THEN Some("d" :> ZeroSchema) ELSE Nil,
            !.Ref = IF p[1] THEN Some("d") ELSE Nil,
            !.Type = IF ~p[2] THEN "" ELSE IF flawed THEN BadType.Type ELSE TypeString,
            !.Enum = IF p[3] THEN Some(IF flawed THEN <<>> ELSE <<"a">>) ELSE Nil,
            !.Elements = IF p[4] THEN Some(sub) ELSE Nil,
            !.Properties = IF p[5] THEN Some("x" :> sub) ELSE Nil,
            !.OptionalProperties =
                IF p[6] THEN Some((IF flawed THEN "x" ELSE "y") :> ZeroSchema) ELSE Nil,
            !.Values = IF p[7] THEN Some(sub) ELSE Nil,
            !.Discriminator = IF p[8] THEN "k" ELSE "",
            !.Mapping =
                IF p[9] THEN Some("a" :> IF flawed THEN ZeroSchema
                                         ELSE PropertiesSchema("x" :> ZeroSchema))
                ELSE Nil]

KeywordSchemas == {Keyworded(p, flawed) : p \in Presences, flawed \in BOOLEAN}

\* mapping values, each of them a schema that passes the checker by itself
Branches ==
    LET plain == PropertiesSchema("x" :> ZeroSchema)
        repeats == PropertiesSchema("k" :> ZeroSchema)
        maybe == WithOptional(ZeroSchema, "k" :> ZeroSchema)
    IN  {plain, repeats, maybe, WithOptional(plain, "k" :> ZeroSchema),
         ZeroSchema, TypeSchema(TypeString), ElementsSchema(ZeroSchema),
         ValuesSchema(repeats), Tagged("a" :> plain)}

\* schemas that break one rule or several, at the root or below it
FlawedSchemas ==
    LET shared == WithOptional(PropertiesSchema("a" :> ZeroSchema), "a" :> ZeroSchema)
    IN  {WithDefinitions(ZeroSchema, "d" :> BadType),
         WithDefinitions(ZeroSchema, ("d" :> BadType) @@ ("e" :> RefSchema("f"))),
         ElementsSchema(WithDefinitions(ZeroSchema, "d" :> ZeroSchema)),
         ElementsSchema(WithDefinitions(ZeroSchema, EmptyMap)),
         WithDefinitions(ZeroSchema, "d" :> WithDefinitions(ZeroSchema, "e" :> ZeroSchema)),
         RefSchema("d"),
         WithDefinitions(RefSchema("e"), "d" :> ZeroSchema),
         WithDefinitions(ElementsSchema(RefSchema("d")), "d" :> RefSchema("e")),
         WithDefinitions(ValuesSchema(RefSchema("d")), "d" :> ZeroSchema),
         BadType,
         ValuesSchema(ElementsSchema(BadType)),
         [ZeroSchema EXCEPT !.Enum = Some(<<>>)],
         [ZeroSchema EXCEPT !.Enum = Some(<<"a", "a">>)],
         ElementsSchema([ZeroSchema EXCEPT !.Enum = Some(<<"a", "b", "a">>)]),
         shared,
         [shared EXCEPT !.AdditionalProperties = TRUE],
         ValuesSchema(shared),
         WithOptional(PropertiesSchema("a" :> ZeroSchema),
                      ("a" :> ZeroSchema) @@ ("b" :> BadType)),
         WithOptional(PropertiesSchema("a" :> ZeroSchema), "a" :> BadType),
         WithOptional(PropertiesSchema(("a" :> ZeroSchema) @@ ("c" :> BadType)),
                      "a" :> ZeroSchema),
         WithOptional(PropertiesSchema("a" :> ZeroSchema),
                      "b" :> [ZeroSchema EXCEPT !.Enum = Some(<<>>)]),
         WithOptional(PropertiesSchema("a" :> BadType), "b" :> RefSchema("d")),
         ElementsSchema([ZeroSchema EXCEPT !.Type = TypeString,
                                           !.Enum = Some(<<"a">>)]),
         PropertiesSchema(("a" :> BadType)
                       @@ ("b" :> [ZeroSchema EXCEPT !.AdditionalProperties = TRUE])),
         Tagged("a" :> PropertiesSchema("x" :> BadType)),
         Tagged(("a" :> NullableOf(PropertiesSchema("x" :> ZeroSchema)))
             @@ ("b" :> TypeSchema(TypeString))),
         Tagged(EmptyMap),
         WithDefinitions(Tagged("a" :> RefSchema("d")),
                         "d" :> PropertiesSchema("x" :> ZeroSchema)),
         ElementsSchema(Tagged("a" :> PropertiesSchema("k" :> ZeroSchema)))}

\* schemas that break no rule, with schemas of several forms below the root
SoundSchemas ==
    LET y == WithOptional(ZeroSchema, "y" :> TypeSchema(TypeTimestamp))
    IN  {ElementsSchema(NullableOf(y)),
         [ValuesSchema(NullableOf(y)) EXCEPT !.Metadata = Some("a" :> JNull)],
         WithDefinitions(
             Tagged("a" :> [y EXCEPT !.AdditionalProperties = TRUE,
                                     !.Metadata = Some("a" :> JNull)]),
             "d" :> NullableOf(Tagged("a" :> PropertiesSchema("x" :> RefSchema("d"))))),
         NullableOf(WithDefinitions(
             PropertiesSchema("x" :> [ZeroSchema EXCEPT !.Enum = Some(<<"a", "b">>)]),
             ("d" :> NullableOf(RefSchema("e"))) @@ ("e" :> ZeroSchema)))}

CheckerSchemas ==
    Schemas \cup KeywordSchemas \cup FlawedSchemas \cup SoundSchemas
       \cup {Tagged("a" :> m) : m \in Branches}
       \cup {Tagged("a" :> NullableOf(m)) : m \in Branches}

\* what the document says for additionalProperties
Givens == {"absent", "false", "true"}

(***************************************************************************)
(* The state.                                                              *)
(***************************************************************************)
VARIABLES
    schema,          \* the schema the caller validates against
    instance,        \* the instance the caller validates
    opts,            \* the settings the caller chose
    Root,            \* validateState.Root
    Settings,        \* validateState.Settings
    Errors,          \* validateState.Errors
    InstanceTokens,  \* validateState.InstanceTokens
    SchemaTokens,    \* validateState.SchemaTokens
    stack,           \* the activations of validate, innermost last
    err,             \* the error value being returned up the stack
    active,          \* a call of ValidateWithSettings is in progress
    calls,           \* the results of the calls that returned
    crashed,         \* the goroutine stack overflowed
    iter,            \* the map iteration orders taken so far
    given,           \* what the schema's document had for additionalProperties
    checked,         \* the value schema.Validate() returned, once called
    formed           \* a schema of the tree and the value its Form() returned

vars == <<schema, instance, opts, Root, Settings, Errors, InstanceTokens,
          SchemaTokens, stack, err, active, calls, crashed, iter,
          given, checked, formed>>

state == <<Errors, InstanceTokens, SchemaTokens>>
checker == <<given, checked, formed>>
inputs == <<schema, instance, opts, Root, Settings, checker>>
caller == <<active, calls, crashed>>

\* one activation of validate: its arguments, where it stands, what is left
\* of the loop it is in, and the paths and frame count it was entered with
Activation(sch, inst, parentTag, instanceTokens, frames) ==
    [pc |-> "validate", schema |-> sch, instance |-> inst,
     parentTag |-> parentTag, todo |-> {}, i |-> 0, key |-> "",
     it0 |-> instanceTokens, st0 |-> Last(frames), nf0 |-> Len(frames)]

\* a validate that has no short-circuit on null
NullShortCircuit_Never(sch, inst) == FALSE

\* if schema.Nullable && instance == nil
NullShortCircuit(sch, inst) == sch.Nullable /\ IsNull(inst)

Top == Last(stack)
Running == active /\ ~crashed /\ stack # <<>> /\ err = ErrNil
At(pc) == Running /\ Top.pc = pc
Enter(form) ==
    /\ At("validate")
    /\ ~NullShortCircuit(Top.schema, Top.instance)
    /\ Form(Top.schema) = form

\* the caller's activation moves to f and the callee is entered
Call(f, callee) == Append([stack EXCEPT ![Len(stack)] = f], callee)
\* the innermost activation returns
Return == Front(stack)
\* the innermost activation goes on as f
Goto(f) == [stack EXCEPT ![Len(stack)] = f]

\* the runtime picks key as the next key of a range loop over a map: the
\* first call records its picks, the second call is compared with them
Pick(key) ==
    IF Len(calls) = 0
    THEN [iter EXCEPT !.choices = Append(@, key)]
    ELSE [iter EXCEPT !.picks = @ + 1,
             !.same = @ /\ (iter.picks < Len(iter.choices)
                               => iter.choices[iter.picks + 1] = key)]

Init ==
    /\ schema \in Schemas
    /\ instance \in Instances
    /\ opts \in SettingsSet
    /\ Root = schema
    /\ Settings = opts
    /\ Errors = <<>>
    /\ InstanceTokens = <<>>
    /\ SchemaTokens = << <<>> >>
    /\ stack = <<>>
    /\ err = ErrNil
    /\ active = FALSE
    /\ calls = <<>>
    /\ crashed = FALSE
    /\ iter = [choices |-> <<>>, picks |-> 0, same |-> TRUE]
    /\ given = IF schema.AdditionalProperties THEN "true" ELSE "absent"
    /\ checked = Nil
    /\ formed = Nil

(***************************************************************************)
(* ValidateWithSettings.                                                   *)
(***************************************************************************)
\* the settings of the caller's calls: the second call sets no MaxErrors
SettingsOfCall(n) == IF n = 1 THEN opts ELSE [opts EXCEPT !.MaxErrors = 0]

\* the state is built and validate is called on the root schema
ValidateWithSettings ==
    /\ ~active /\ ~crashed /\ Len(calls) < 2
    /\ Root' = schema
    /\ Settings' = SettingsOfCall(Len(calls) + 1)
    /\ Errors' = <<>>
    /\ InstanceTokens' = <<>>
    /\ SchemaTokens' = << <<>> >>
    /\ stack' = <<Activation(schema, instance, Nil, <<>>, << <<>> >>)>>
    /\ err' = ErrNil
    /\ active' = TRUE
    /\ UNCHANGED <<schema, instance, opts, calls, crashed, iter, checker>>

\* a ValidateWithSettings that returns every non-nil error of validate
Result_Leak(e, errors) ==
    IF e # ErrNil
    THEN [errors |-> <<>>, fatal |-> e]
    ELSE [errors |-> errors, fatal |-> ErrNil]

\* a ValidateWithSettings that returns the buffer next to a fatal error
Result_KeepErrors(e, errors) ==
    [errors |-> errors,
     fatal |-> IF e # ErrNil /\ e # errMaxErrorsReached THEN e ELSE ErrNil]

\* what ValidateWithSettings returns for the value validate returned
Result(e, errors) ==
    IF e # ErrNil /\ e # errMaxErrorsReached
    THEN [errors |-> <<>>, fatal |-> e]
    ELSE [errors |-> errors, fatal |-> ErrNil]

\* validate has returned to ValidateWithSettings
ValidateWithSettingsReturn ==
    /\ active /\ ~crashed /\ stack = <<>>
    /\ calls' = Append(calls, Result(err, Errors))
    /\ active' = FALSE
    /\ UNCHANGED <<inputs, state, stack, err, crashed, iter>>

\* an activation that received a non-nil error from its callee returns it
ReturnErr ==
    /\ active /\ ~crashed /\ stack # <<>> /\ err # ErrNil
    /\ stack' = Return
    /\ UNCHANGED <<inputs, state, err, caller, iter>>

(***************************************************************************)
(* validate: one action per stretch of code of an activation.              *)
(***************************************************************************)
\* A branch that has pushed its tokens (instance tokens it1, frames st1)
\* calls pushError: on the sentinel it returns at once, with its tokens
\* left in place; otherwise it pops them (giving it2, st2) and validate
\* returns nil.
FailAndReturn(it1, st1, it2, st2) ==
    LET errors == pushError(Errors, it1, st1)
        e == pushErrorReturn(errors, Settings)
    IN  /\ Errors' = errors
        /\ err' = e
        /\ InstanceTokens' = IF e # ErrNil THEN it1 ELSE it2
        /\ SchemaTokens' = IF e # ErrNil THEN st1 ELSE st2
        /\ stack' = Return

\* if schema.Nullable && instance == nil { return nil }
ValidateNull ==
    /\ At("validate")
    /\ NullShortCircuit(Top.schema, Top.instance)
    /\ stack' = Return
    /\ UNCHANGED <<inputs, state, err, caller, iter>>

\* case FormEmpty
ValidateEmpty ==
    /\ Enter(FormEmpty)
    /\ stack' = Return
    /\ UNCHANGED <<inputs, state, err, caller, iter>>

\* a ref that goes on with the path that led to it
RefFrame_Inherit(frames, name) ==
    Append(frames, Last(frames) \o <<"definitions", name>>)

\* append(state.SchemaTokens, []string{"definitions", *schema.Ref})
RefFrame(frames, name) == Append(frames, <<"definitions", name>>)

\* case FormRef, up to the recursive call
ValidateRef ==
    /\ Enter(FormRef)
    /\ IF DepthExceeded(SchemaTokens, Settings)
       THEN /\ err' = ErrMaxDepthExceeded
            /\ stack' = Return
            /\ UNCHANGED <<state, crashed>>
       ELSE IF Len(SchemaTokens) >= MaxFrames
       THEN \* the recursion is unbounded and the goroutine stack overflows
            /\ crashed' = TRUE
            /\ UNCHANGED <<state, stack, err>>
       ELSE LET name == Top.schema.Ref[1]
                frames == RefFrame(SchemaTokens, name)
            IN  /\ SchemaTokens' = frames
                /\ stack' = Call([Top EXCEPT !.pc = "ref"],
                                 Activation(Definition(Root, name), Top.instance,
                                            Nil, InstanceTokens, frames))
                /\ UNCHANGED <<Errors, InstanceTokens, err, crashed>>
    /\ UNCHANGED <<inputs, active, calls, iter>>

\* case FormRef, after the recursive call returned nil
RefReturn ==
    /\ At("ref")
    /\ SchemaTokens' = Front(SchemaTokens)
    /\ stack' = Return
    /\ UNCHANGED <<inputs, Errors, InstanceTokens, err, caller, iter>>

\* case FormType
ValidateType ==
    /\ Enter(FormType)
    /\ LET st1 == pushSchemaToken(SchemaTokens, "type")
       IN  IF TypeFails(Top.schema, Top.instance)
           THEN FailAndReturn(InstanceTokens, st1, InstanceTokens, popSchemaToken(st1))
           ELSE /\ SchemaTokens' = popSchemaToken(st1)
                /\ stack' = Return
                /\ UNCHANGED <<Errors, InstanceTokens, err>>
    /\ UNCHANGED <<inputs, caller, iter>>

\* case FormEnum
ValidateEnum ==
    /\ Enter(FormEnum)
    /\ LET st1 == pushSchemaToken(SchemaTokens, "enum")
       IN  IF EnumFails(Top.schema, Top.instance)
           THEN FailAndReturn(InstanceTokens, st1, InstanceTokens, popSchemaToken(st1))
           ELSE /\ SchemaTokens' = popSchemaToken(st1)
                /\ stack' = Return
                /\ UNCHANGED <<Errors, InstanceTokens, err>>
    /\ UNCHANGED <<inputs, caller, iter>>

\* case FormElements, up to the loop
ValidateElements ==
    /\ Enter(FormElements)
    /\ LET st1 == pushSchemaToken(SchemaTokens, "elements")
       IN  IF IsArray(Top.instance)
           THEN /\ SchemaTokens' = st1
                /\ stack' = Goto([Top EXCEPT !.pc = "elements", !.i = 0])
                /\ UNCHANGED <<Errors, InstanceTokens, err>>
           ELSE FailAndReturn(InstanceTokens, st1, InstanceTokens, popSchemaToken(st1))
    /\ UNCHANGED <<inputs, caller, iter>>

\* for i, subInstance := range arr: the next element, or the end of the loop
ElementsLoop ==
    /\ At("elements")
    /\ IF Top.i < Len(Top.instance.items)
       THEN LET it1 == pushInstanceToken(InstanceTokens, Itoa(Top.i))
            IN  /\ InstanceTokens' = it1
                /\ stack' = Call([Top EXCEPT !.pc = "elements.ret"],
                                 Activation(Top.schema.Elements[1],
                                            Top.instance.items[Top.i + 1],
                                            Nil, it1, SchemaTokens))
                /\ UNCHANGED SchemaTokens
       ELSE /\ SchemaTokens' = popSchemaToken(SchemaTokens)
            /\ stack' = Return
            /\ UNCHANGED InstanceTokens
    /\ UNCHANGED <<inputs, Errors, err, caller, iter>>

\* the call on an element returned nil
ElementsReturn ==
    /\ At("elements.ret")
    /\ InstanceTokens' = popInstanceToken(InstanceTokens)
    /\ stack' = Goto([Top EXCEPT !.pc = "elements", !.i = @ + 1])
    /\ UNCHANGED <<inputs, Errors, SchemaTokens, err, caller, iter>>

\* case FormProperties, up to the loop over schema.Properties
ValidateProperties ==
    /\ Enter(FormProperties)
    /\ IF IsObject(Top.instance)
       THEN /\ SchemaTokens' = pushSchemaToken(SchemaTokens, "properties")
            /\ stack' = Goto([Top EXCEPT !.pc = "properties",
                                         !.todo = Keys(Top.schema.Properties)])
            /\ UNCHANGED <<Errors, InstanceTokens, err>>
       ELSE LET st1 == pushSchemaToken(SchemaTokens,
                          IF IsSet(Top.schema.Properties) THEN "properties"
                          ELSE "optionalProperties")
            IN  FailAndReturn(InstanceTokens, st1, InstanceTokens, popSchemaToken(st1))
    /\ UNCHANGED <<inputs, caller, iter>>

\* for key, subSchema := range schema.Properties: one iteration, up to the
\* recursive call when the object has the key
PropertiesLoop ==
    /\ At("properties")
    /\ \E key \in Top.todo :
         LET st1 == pushSchemaToken(SchemaTokens, key)
             rest == [Top EXCEPT !.todo = @ \ {key}, !.key = key]
         IN  /\ iter' = Pick(key)
             /\ IF key \in DOMAIN Top.instance.fields
                THEN LET it1 == pushInstanceToken(InstanceTokens, key)
                     IN  /\ InstanceTokens' = it1
                         /\ SchemaTokens' = st1
                         /\ stack' = Call([rest EXCEPT !.pc = "properties.ret"],
                                          Activation(Top.schema.Properties[1][key],
                                                     Top.instance.fields[key],
                                                     Nil, it1, st1))
                         /\ UNCHANGED <<Errors, err>>
                ELSE LET errors == pushError(Errors, InstanceTokens, st1)
                         e == pushErrorReturn(errors, Settings)
                     IN  /\ Errors' = errors
                         /\ err' = e
                         /\ SchemaTokens' = IF e # ErrNil THEN st1
                                            ELSE popSchemaToken(st1)
                         /\ stack' = IF e # ErrNil THEN Return ELSE Goto(rest)
                         /\ UNCHANGED InstanceTokens
    /\ UNCHANGED <<inputs, caller>>

\* the call on a required property returned nil
PropertiesReturn ==
    /\ At("properties.ret")
    /\ InstanceTokens' = popInstanceToken(InstanceTokens)
    /\ SchemaTokens' = popSchemaToken(SchemaTokens)
    /\ stack' = Goto([Top EXCEPT !.pc = "properties"])
    /\ UNCHANGED <<inputs, Errors, err, caller, iter>>

\* the loop over schema.Properties is over
PropertiesDone ==
    /\ At("properties") /\ Top.todo = {}
    /\ SchemaTokens' = pushSchemaToken(popSchemaToken(SchemaTokens),
                                       "optionalProperties")
    /\ stack' = Goto([Top EXCEPT !.pc = "optionalProperties",
                                 !.todo = Keys(Top.schema.OptionalProperties)])
    /\ UNCHANGED <<inputs, Errors, InstanceTokens, err, caller, iter>>

\* for key, subSchema := range schema.OptionalProperties: one iteration
OptionalPropertiesLoop ==
    /\ At("optionalProperties")
    /\ \E key \in Top.todo :
         LET st1 == pushSchemaToken(SchemaTokens, key)
             rest == [Top EXCEPT !.todo = @ \ {key}, !.key = key]
         IN  /\ iter' = Pick(key)
             /\ IF key \in DOMAIN Top.instance.fields
                THEN LET it1 == pushInstanceToken(InstanceTokens, key)
                     IN  /\ InstanceTokens' = it1
                         /\ SchemaTokens' = st1
                         /\ stack' = Call([rest EXCEPT !.pc = "optionalProperties.ret"],
                                          Activation(Top.schema.OptionalProperties[1][key],
                                                     Top.instance.fields[key],
                                                     Nil, it1, st1))
                ELSE /\ SchemaTokens' = popSchemaToken(st1)
                     /\ stack' = Goto(rest)
                     /\ UNCHANGED InstanceTokens
    /\ UNCHANGED <<inputs, Errors, err, caller>>

\* the call on an optional property returned nil
OptionalPropertiesReturn ==
    /\ At("optionalProperties.ret")
    /\ InstanceTokens' = popInstanceToken(InstanceTokens)
    /\ SchemaTokens' = popSchemaToken(SchemaTokens)
    /\ stack' = Goto([Top EXCEPT !.pc = "optionalProperties"])
    /\ UNCHANGED <<inputs, Errors, err, caller, iter>>

\* the loop over schema.OptionalProperties is over
OptionalPropertiesDone ==
    /\ At("optionalProperties") /\ Top.todo = {}
    /\ SchemaTokens' = popSchemaToken(SchemaTokens)
    /\ stack' = IF ~Top.schema.AdditionalProperties
                THEN Goto([Top EXCEPT !.pc = "additional",
                                      !.todo = DOMAIN Top.instance.fields])
                ELSE Return
    /\ UNCHANGED <<inputs, Errors, InstanceTokens, err, caller, iter>>

\* a sweep that skips no key
IsParentTag_Never(parentTag, key) == FALSE

\* if parentTag != nil && key == *parentTag { continue }
IsParentTag(parentTag, key) == IsSet(parentTag) /\ key = parentTag[1]

\* for key := range obj: one iteration of the additional properties sweep
AdditionalLoop ==
    /\ At("additional")
    /\ \E key \in Top.todo :
         LET rest == [Top EXCEPT !.todo = @ \ {key}, !.key = key]
             requiredOk == HasKey(Top.schema.Properties, key)
             optionalOk == HasKey(Top.schema.OptionalProperties, key)
         IN  /\ iter' = Pick(key)
             /\ IF IsParentTag(Top.parentTag, key)
                THEN /\ stack' = Goto(rest)
                     /\ UNCHANGED <<Errors, InstanceTokens, err>>
                ELSE IF ~requiredOk /\ ~optionalOk
                THEN LET it1 == pushInstanceToken(InstanceTokens, key)
                         errors == pushError(Errors, it1, SchemaTokens)
                         e == pushErrorReturn(errors, Settings)
                     IN  /\ Errors' = errors
                         /\ err' = e
                         /\ InstanceTokens' = IF e # ErrNil THEN it1
                                              ELSE popInstanceToken(it1)
                         /\ stack' = IF e # ErrNil THEN Return ELSE Goto(rest)
                ELSE /\ stack' = Goto(rest)
                     /\ UNCHANGED <<Errors, InstanceTokens, err>>
    /\ UNCHANGED <<inputs, SchemaTokens, caller>>

\* the sweep is over
AdditionalDone ==
    /\ At("additional") /\ Top.todo = {}
    /\ stack' = Return
    /\ UNCHANGED <<inputs, state, err, caller, iter>>

\* case FormValues, up to the loop
ValidateValues ==
    /\ Enter(FormValues)
    /\ LET st1 == pushSchemaToken(SchemaTokens, "values")
       IN  IF IsObject(Top.instance)
           THEN /\ SchemaTokens' = st1
                /\ stack' = Goto([Top EXCEPT !.pc = "values",
                                             !.todo = DOMAIN Top.instance.fields])
                /\ UNCHANGED <<Errors, InstanceTokens, err>>
           ELSE FailAndReturn(InstanceTokens, st1, InstanceTokens, popSchemaToken(st1))
    /\ UNCHANGED <<inputs, caller, iter>>

\* for key, subInstance := range obj: one iteration, up to the recursive call
ValuesLoop ==
    /\ At("values")
    /\ \E key \in Top.todo :
         LET it1 == pushInstanceToken(InstanceTokens, key)
         IN  /\ iter' = Pick(key)
             /\ InstanceTokens' = it1
             /\ stack' = Call([Top EXCEPT !.pc = "values.ret",
                                          !.todo = @ \ {key}, !.key = key],
                              Activation(Top.schema.Values[1],
                                         Top.instance.fields[key],
                                         Nil, it1, SchemaTokens))
    /\ UNCHANGED <<inputs, Errors, SchemaTokens, err, caller>>

\* the call on a value returned nil
ValuesReturn ==
    /\ At("values.ret")
    /\ InstanceTokens' = popInstanceToken(InstanceTokens)
    /\ stack' = Goto([Top EXCEPT !.pc = "values"])
    /\ UNCHANGED <<inputs, Errors, SchemaTokens, err, caller, iter>>

\* the loop over the values is over
ValuesDone ==
    /\ At("values") /\ Top.todo = {}
    /\ SchemaTokens' = popSchemaToken(SchemaTokens)
    /\ stack' = Return
    /\ UNCHANGED <<inputs, Errors, InstanceTokens, err, caller, iter>>

\* case FormDiscriminator, up to the recursive call on the mapping
ValidateDiscriminator ==
    /\ Enter(FormDiscriminator)
    /\ LET disc == Top.schema.Discriminator
           obj == Top.instance.fields
           onDisc == pushSchemaToken(SchemaTokens, "discriminator")
           onMap == pushSchemaToken(SchemaTokens, "mapping")
           atTag == pushInstanceToken(InstanceTokens, disc)
       IN  IF ~IsObject(Top.instance)
           THEN FailAndReturn(InstanceTokens, onDisc,
                              InstanceTokens, popSchemaToken(onDisc))
           ELSE IF disc \notin DOMAIN obj
           THEN FailAndReturn(InstanceTokens, onDisc,
                              InstanceTokens, popSchemaToken(onDisc))
           ELSE IF ~IsString(obj[disc])
           THEN FailAndReturn(atTag, onDisc,
                              popInstanceToken(atTag), popSchemaToken(onDisc))
           ELSE IF ~HasKey(Top.schema.Mapping, obj[disc].s)
           THEN FailAndReturn(atTag, onMap,
                              popInstanceToken(atTag), popSchemaToken(onMap))
           ELSE LET st2 == pushSchemaToken(onMap, obj[disc].s)
                IN  /\ SchemaTokens' = st2
                    /\ stack' = Call([Top EXCEPT !.pc = "discriminator"],
                                     Activation(Top.schema.Mapping[1][obj[disc].s],
                                                Top.instance, Some(disc),
                                                InstanceTokens, st2))
                    /\ UNCHANGED <<Errors, InstanceTokens, err>>
    /\ UNCHANGED <<inputs, caller, iter>>

\* the call on the mapping returned nil
DiscriminatorReturn ==
    /\ At("discriminator")
    /\ SchemaTokens' = popSchemaToken(popSchemaToken(SchemaTokens))
    /\ stack' = Return
    /\ UNCHANGED <<inputs, Errors, InstanceTokens, err, caller, iter>>

Next ==
    \/ ValidateWithSettings
    \/ ValidateWithSettingsReturn
    \/ ReturnErr
    \/ ValidateNull
    \/ ValidateEmpty
    \/ ValidateRef
    \/ RefReturn
    \/ ValidateType
    \/ ValidateEnum
    \/ ValidateElements
    \/ ElementsLoop
    \/ ElementsReturn
    \/ ValidateProperties
    \/ PropertiesLoop
    \/ PropertiesReturn
    \/ PropertiesDone
    \/ OptionalPropertiesLoop
    \/ OptionalPropertiesReturn
    \/ OptionalPropertiesDone
    \/ AdditionalLoop
    \/ AdditionalDone
    \/ ValidateValues
    \/ ValuesLoop
    \/ ValuesReturn
    \/ ValuesDone
    \/ ValidateDiscriminator
    \/ DiscriminatorReturn

Spec == Init /\ [][Next]_vars

\* validate is sequential code: a step that can be taken is taken
FairSpec == Spec /\ WF_vars(Next)

(***************************************************************************)
(* The integer types on numbers at and around the bounds of each range.    *)
(***************************************************************************)
IntegerTypes ==
    {TypeInt8, TypeUint8, TypeInt16, TypeUint16, TypeInt32, TypeUint32}

\* integers next to the bounds of the ranges, and numbers with a fraction
BoundaryNumbers ==
    {JInt(i) : i \in {-32769, -32768, -129, -128, -1, 0, 1, 127, 128, 255, 256,
                      32767, 32768, 65535, 65536, 2147483647}}
       \cup {JNumber(Num(hi, lo, 0)) :
                hi \in {-32769, -32768, 32768, 65535, 65536}, lo \in {0, Word - 1}}
       \cup {JNumber(n) :
                n \in {Num(0, 0, 5), Num(0, 0, -5), Num(0, 127, 5), Num(0, 255, 5),
                       Num(-1, Word - 128, -5), Num(65535, Word - 1, 5)}}

IntInit ==
    /\ schema \in {TypeSchema(t) : t \in IntegerTypes}
    /\ instance \in BoundaryNumbers
                      \cup {JNull, JBool(TRUE), JString("1"), JArray(<<JInt(1)>>),
                            JObject("a" :> JInt(1))}
    /\ opts \in SettingsSet
    /\ Root = schema
    /\ Settings = opts
    /\ Errors = <<>>
    /\ InstanceTokens = <<>>
    /\ SchemaTokens = << <<>> >>
    /\ stack = <<>>
    /\ err = ErrNil
    /\ active = FALSE
    /\ calls = <<>>
    /\ crashed = FALSE
    /\ iter = [choices |-> <<>>, picks |-> 0, same |-> TRUE]
    /\ given = "absent"
    /\ checked = Nil
    /\ formed = Nil

\* the steps a schema of the Type form can take
IntNext ==
    \/ ValidateWithSettings
    \/ ValidateType
    \/ ValidateWithSettingsReturn

IntSpec == IntInit /\ [][IntNext]_vars

(***************************************************************************)
(* The checker's callers: a schema is decoded from a document, and         *)
(* Validate and Form are called on it.                                     *)
(***************************************************************************)
CheckerInit ==
    /\ given \in Givens
    /\ \E s \in CheckerSchemas :
          schema = UnmarshalAdditionalProperties(s, given)
    /\ instance = JNull
    /\ opts = [MaxDepth |-> 0, MaxErrors |-> 0]
    /\ Root = schema
    /\ Settings = opts
    /\ Errors = <<>>
    /\ InstanceTokens = <<>>
    /\ SchemaTokens = << <<>> >>
    /\ stack = <<>>
    /\ err = ErrNil
    /\ active = FALSE
    /\ calls = <<>>
    /\ crashed = FALSE
    /\ iter = [choices |-> <<>>, picks |-> 0, same |-> TRUE]
    /\ checked = Nil
    /\ formed = Nil

\* err := schema.Validate()
SchemaValidate ==
    /\ ~IsSet(checked)
    /\ \E e \in Validate(schema) : checked' = Some(e)
    /\ UNCHANGED <<schema, instance, opts, Root, Settings, given, formed,
                   state, stack, err, caller, iter>>

\* form := s.Form(), on the schema or on a schema nested in it
SchemaForm ==
    /\ ~IsSet(formed)
    /\ \E s \in SubSchemas(schema) :
          formed' = Some([schema |-> s, form |-> Form(s)])
    /\ UNCHANGED <<schema, instance, opts, Root, Settings, given, checked,
                   state, stack, err, caller, iter>>

CheckerNext ==
    \/ SchemaValidate
    \/ SchemaForm

CheckerSpec == CheckerInit /\ [][CheckerNext]_vars

(***************************************************************************)
(* Properties of the validator.                                            *)
(***************************************************************************)
\* the calls that have returned
Returned == 1..Len(calls)
\* the last call has returned and its state has not been rebuilt yet
JustReturned == ~active /\ Len(calls) >= 1
NoError == [errors |-> <<>>, fatal |-> ErrNil]

\* C1: with MaxErrors = n > 0 the error buffer never holds more than n
\* entries during validation, and no returned error list is longer than n.
C1_MaxErrorsBound ==
    /\ Settings.MaxErrors > 0 => Len(Errors) <= Settings.MaxErrors
    /\ \A c \in Returned :
          SettingsOfCall(c).MaxErrors > 0
             => Len(calls[c].errors) <= SettingsOfCall(c).MaxErrors

\* the limited call returned exactly n errors where the unlimited one returns more
C1_Witness ==
    /\ Len(calls) = 2 /\ opts.MaxErrors > 0
    /\ Len(calls[1].errors) = opts.MaxErrors
    /\ Len(calls[2].errors) > opts.MaxErrors

\* C2: when both calls iterate every map in the same order and neither
\* fails on the depth, the list returned with MaxErrors = n > 0 is the
\* first min(n, total) errors of the list returned with MaxErrors = 0.
C2_PrefixOfUnbounded ==
    (/\ Len(calls) = 2 /\ opts.MaxErrors > 0 /\ iter.same
     /\ calls[1].fatal = ErrNil /\ calls[2].fatal = ErrNil)
    => calls[1].errors =
          Prefix(calls[2].errors, Min(opts.MaxErrors, Len(calls[2].errors)))

\* a truncated list, cut inside a map iteration that the second call repeats
C2_Witness ==
    /\ Len(calls) = 2 /\ opts.MaxErrors > 0 /\ iter.same
    /\ calls[1].fatal = ErrNil /\ calls[2].fatal = ErrNil
    /\ Len(iter.choices) >= 2
    /\ Len(calls[1].errors) >= 2
    /\ Len(calls[1].errors) < Len(calls[2].errors)
    /\ calls[2].errors[1] # calls[2].errors[2]

\* C3: the fatal result is nil or ErrMaxDepthExceeded; the sentinel of
\* pushError stops the validation where it is raised and comes out as
\* (errors collected so far, nil).
C3_SentinelNotReturned ==
    /\ \A c \in Returned : calls[c].fatal \in {ErrNil, ErrMaxDepthExceeded}
    /\ err = errMaxErrorsReached => Len(Errors) = Settings.MaxErrors
    /\ (JustReturned /\ err = errMaxErrorsReached)
          => calls[Len(calls)] = [errors |-> Errors, fatal |-> ErrNil]

\* the sentinel was raised two levels down in the instance and unwound
C3_Witness ==
    /\ JustReturned /\ err = errMaxErrorsReached
    /\ Len(InstanceTokens) >= 2
    /\ calls[Len(calls)].errors # <<>>

\* the names of the refs that occur in a schema, at any depth
RECURSIVE RefsOf(_)
RefsOf(s) ==
    (IF IsSet(s.Ref) THEN {s.Ref[1]} ELSE {})
    \cup (IF IsSet(s.Elements) THEN RefsOf(s.Elements[1]) ELSE {})
    \cup (IF IsSet(s.Values) THEN RefsOf(s.Values[1]) ELSE {})
    \cup UNION {RefsOf(s.Properties[1][k]) : k \in Keys(s.Properties)}
    \cup UNION {RefsOf(s.OptionalProperties[1][k]) : k \in Keys(s.OptionalProperties)}
    \cup UNION {RefsOf(s.Mapping[1][k]) : k \in Keys(s.Mapping)}

\* the definitions reached from the definitions in set by at most n more refs
RECURSIVE RefReach(_, _, _)
RefReach(root, set, n) ==
    IF n = 0 THEN set
    ELSE RefReach(root,
                  set \cup UNION {RefsOf(Definition(root, d)) : d \in set},
                  n - 1)

\* the ref graph of the schema has a cycle
Cyclic(root) ==
    \E d \in Keys(root.Definitions) :
        d \in RefReach(root, RefsOf(Definition(root, d)),
                       Cardinality(Keys(root.Definitions)))

CyclicRun == Cyclic(schema) /\ opts.MaxDepth > 0

\* C4 as stated: on a schema with a cyclic ref graph and maxDepth > 0,
\* validation terminates and its outcome is the fatal ErrMaxDepthExceeded or
\* an empty error list.
C4_DepthErrorOrEmpty ==
    /\ (CyclicRun /\ active) ~> JustReturned
    /\ [](\A c \in Returned :
             CyclicRun => \/ calls[c].fatal = ErrMaxDepthExceeded
                          \/ calls[c].errors = <<>>)

\* C4 amended: on a schema with a cyclic ref graph and maxDepth > 0,
\* validation terminates, and its outcome is either the fatal
\* ErrMaxDepthExceeded with no error list, or no fatal error and a list of
\* errors that may be non-empty.
C4_Terminates ==
    (CyclicRun /\ active)
        ~> (/\ JustReturned
            /\ \/ calls[Len(calls)] = [errors |-> <<>>, fatal |-> ErrMaxDepthExceeded]
               \/ calls[Len(calls)].fatal = ErrNil)

\* a cyclic schema whose validation ended below the depth limit with errors
C4_Witness ==
    /\ CyclicRun /\ JustReturned
    /\ IsSet(schema.Ref)
    /\ calls[Len(calls)].fatal = ErrNil
    /\ calls[Len(calls)].errors # <<>>

\* the number of refs being followed: one schema frame per ref, above the
\* frame the state is built with
RefsNested == Len(SchemaTokens) - 1

\* C5: MaxDepth = n > 0 is the maximum number of refs followed
\* recursively: never more than n refs are nested, and ErrMaxDepthExceeded
\* is returned only where following one more ref would nest more than n.
C5_MaxDepthCountsRefs ==
    Settings.MaxDepth > 0
       => /\ RefsNested <= Settings.MaxDepth
          /\ err = ErrMaxDepthExceeded => RefsNested + 1 > Settings.MaxDepth

\* C6: a call that returns the fatal ErrMaxDepthExceeded returns no errors.
C6_DepthErrorDropsErrors ==
    \A c \in Returned :
        calls[c].fatal = ErrMaxDepthExceeded => calls[c].errors = <<>>

\* the depth limit was hit with errors already in the buffer
C6_Witness ==
    /\ JustReturned
    /\ calls[Len(calls)].fatal = ErrMaxDepthExceeded
    /\ Errors # <<>>

\* C7: a schema with nullable = true accepts the null instance with no
\* errors and no fatal error, whatever its form and the settings.
C7_NullableAcceptsNull ==
    (schema.Nullable /\ IsNull(instance))
       => /\ ~crashed /\ Errors = <<>> /\ err = ErrNil
          /\ \A c \in Returned : calls[c] = NoError

\* a nullable ref that loops, validated on null at the smallest depth limit
C7_Witness ==
    /\ schema.Nullable /\ IsNull(instance)
    /\ Form(schema) = FormRef /\ Cyclic(schema)
    /\ opts.MaxDepth = 1
    /\ Len(calls) = 2

\* no form keyword is set on the schema
NoFormKeyword(s) ==
    /\ ~IsSet(s.Ref) /\ s.Type = "" /\ ~IsSet(s.Enum) /\ ~IsSet(s.Elements)
    /\ ~IsSet(s.Properties) /\ ~IsSet(s.OptionalProperties)
    /\ ~s.AdditionalProperties /\ ~IsSet(s.Values)
    /\ s.Discriminator = "" /\ ~IsSet(s.Mapping)

\* C8: the empty schema accepts every instance, under every settings,
\* with no errors and no fatal error.
C8_EmptyAcceptsAll ==
    NoFormKeyword(schema)
       => /\ ~crashed /\ Errors = <<>> /\ err = ErrNil
          /\ \A c \in Returned : calls[c] = NoError

\* the empty schema, not nullable, validated on an object under limits
C8_Witness ==
    /\ NoFormKeyword(schema) /\ ~schema.Nullable
    /\ IsObject(instance) /\ DOMAIN instance.fields # {}
    /\ opts.MaxDepth > 0 /\ opts.MaxErrors > 0
    /\ Len(calls) = 2

NoLimits == [MaxDepth |-> 0, MaxErrors |-> 0]
\* the error indicator with the given instance path and schema path
ErrorAt(instancePath, schemaPath) ==
    [InstancePath |-> instancePath, SchemaPath |-> schemaPath]
\* how many times the error e is in the buffer
Count(e) == Cardinality({x \in 1..Len(Errors) : Errors[x] = e})
\* the activations of the Properties form that are past their entry, on objects
InProperties(f) ==
    /\ f.pc # "validate"
    /\ Form(f.schema) = FormProperties
    /\ IsObject(f.instance)
\* the required keys the activation has iterated over
RequiredDone(f) ==
    IF f.pc \in {"properties", "properties.ret"}
    THEN Keys(f.schema.Properties) \ f.todo
    ELSE Keys(f.schema.Properties)

ReadmeErrors ==
    {ErrorAt(<<>>, <<"properties", "name">>),
     ErrorAt(<<"age">>, <<"properties", "age", "type">>),
     ErrorAt(<<"phones", "1">>, <<"properties", "phones", "elements", "type">>)}

\* C9: with no limits set, a Properties form on an object reports each
\* absent required key k once, at the object's path and at the schema's
\* path followed by "properties", k; it reports nothing for an absent
\* optional key; and it validates each present declared key against its
\* sub-schema with the instance path extended by k and the schema path by
\* "properties" or "optionalProperties", k.  The example of the README
\* gives exactly its three errors.
C9_PropertiesForm ==
    Settings = NoLimits =>
      /\ \A x \in 1..Len(stack) :
           LET f == stack[x]
               obj == DOMAIN f.instance.fields
           IN  InProperties(f) =>
                 /\ \A k \in Keys(f.schema.Properties) \ obj :
                       Count(ErrorAt(f.it0, f.st0 \o <<"properties", k>>))
                          = IF k \in RequiredDone(f) THEN 1 ELSE 0
                 /\ \A k \in Keys(f.schema.OptionalProperties) \ obj :
                       \A y \in 1..Len(Errors) :
                          /\ ~IsPrefix(Append(f.it0, k), Errors[y].InstancePath)
                          /\ Errors[y] #
                               ErrorAt(f.it0, f.st0 \o <<"optionalProperties", k>>)
                 /\ (f.pc \in {"properties.ret", "optionalProperties.ret"}
                        /\ x < Len(stack)) =>
                       LET g == stack[x + 1]
                           word == IF f.pc = "properties.ret" THEN "properties"
                                   ELSE "optionalProperties"
                           subs == IF f.pc = "properties.ret" THEN f.schema.Properties
                                   ELSE f.schema.OptionalProperties
                       IN  /\ f.key \in obj
                           /\ g.schema = subs[1][f.key]
                           /\ g.instance = f.instance.fields[f.key]
                           /\ g.it0 = Append(f.it0, f.key)
                           /\ g.st0 = f.st0 \o <<word, f.key>>
                           /\ (x + 1 = Len(stack) /\ g.pc = "validate" /\ err = ErrNil)
                                 => /\ InstanceTokens = g.it0
                                    /\ Last(SchemaTokens) = g.st0
      /\ \A c \in Returned :
           (schema = ReadmeSchema /\ SettingsOfCall(c) = NoLimits) =>
              /\ instance = ReadmeOk => calls[c] = NoError
              /\ instance = ReadmeBad =>
                    /\ calls[c].fatal = ErrNil
                    /\ Len(calls[c].errors) = 3
                    /\ {calls[c].errors[y] : y \in 1..3} = ReadmeErrors

\* below the root and behind a ref, an object that lacks its required and
\* its optional key, after both loops
C9_Witness ==
    /\ Settings = NoLimits /\ active /\ stack # <<>>
    /\ InProperties(Top) /\ Top.pc = "additional"
    /\ Top.it0 # <<>> /\ Len(SchemaTokens) > 1
    /\ Keys(Top.schema.Properties) \ DOMAIN Top.instance.fields # {}
    /\ Keys(Top.schema.OptionalProperties) \ DOMAIN Top.instance.fields # {}
    /\ Len(Errors) >= 2

\* C10: on the README schema and its bad instance, WithMaxErrors(1)
\* returns the single error of the missing name.
C10_FirstErrorIsName ==
    (schema = ReadmeSchema /\ instance = ReadmeBad /\ opts.MaxErrors = 1
        /\ Len(calls) >= 1)
    => calls[1] = [errors |-> <<ErrorAt(<<>>, <<"properties", "name">>)>>,
                   fatal |-> ErrNil]

\* the instances of the discriminator example
TaggedOk == JObject(("k" :> JString("a")) @@ ("x" :> JString("y")))
TaggedExtra ==
    JObject(("k" :> JString("a")) @@ ("x" :> JString("y")) @@ ("extra" :> JInt(1)))
\* what the calls without limits returned on the discriminator example, when
\* the undeclared key is reported at schemaPath
TaggedResults(schemaPath) ==
    \A c \in Returned :
       (schema = TaggedSchema /\ SettingsOfCall(c) = NoLimits) =>
          /\ instance = TaggedOk => calls[c] = NoError
          /\ instance = TaggedExtra =>
                calls[c] = [errors |-> <<ErrorAt(<<"extra">>, schemaPath)>>,
                            fatal |-> ErrNil]

\* C11 as stated: on the discriminator "k" with the branch a of one string
\* property x, {k:"a",x:"y"} has no errors and {k:"a",x:"y",extra:1} has the
\* single error at instance path [extra] and schema path
\* [mapping, a, properties]; the key k is not flagged.
C11_ExtraAtProperties == TaggedResults(<<"mapping", "a", "properties">>)

\* C11, amended: as above, but the single error has the schema path of the
\* branch itself, [mapping, a].
C11_ExtraAtBranch == TaggedResults(<<"mapping", "a">>)

\* both calls on the instance with the undeclared key have returned
C11_Witness ==
    /\ schema = TaggedSchema /\ instance = TaggedExtra
    /\ opts = NoLimits /\ Len(calls) = 2
    /\ Len(calls[1].errors) = 1

(***************************************************************************)
(* Properties of the checker.                                              *)
(***************************************************************************)
\* the keywords of the form signature that are present on s
Present(s) ==
    {w \in {"ref"} : IsSet(s.Ref)} \cup {w \in {"type"} : s.Type # ""}
       \cup {w \in {"enum"} : IsSet(s.Enum)}
       \cup {w \in {"elements"} : IsSet(s.Elements)}
       \cup {w \in {"properties"} : IsSet(s.Properties)}
       \cup {w \in {"optionalProperties"} : IsSet(s.OptionalProperties)}
       \cup {w \in {"additionalProperties"} : s.AdditionalProperties}
       \cup {w \in {"values"} : IsSet(s.Values)}
       \cup {w \in {"discriminator"} : s.Discriminator # ""}
       \cup {w \in {"mapping"} : IsSet(s.Mapping)}

\* the thirteen admissible signatures
Admissible(s) ==
    LET here == Present(s)
    IN  \/ here = {}
        \/ here \in {{"ref"}, {"type"}, {"enum"}, {"elements"}, {"values"}}
        \/ /\ here \subseteq {"properties", "optionalProperties", "additionalProperties"}
           /\ here \cap {"properties", "optionalProperties"} # {}
        \/ here = {"discriminator", "mapping"}

\* the schemas nested in s, at any depth, have admissible signatures
AdmissibleBelow(s) == \A n \in SubSchemas(s) \ {s} : Admissible(n)

\* the errors of the checker other than ErrInvalidForm
OtherCheckerErrors ==
    {"jtd: non-root definitions", "jtd: ref to non-existent definition",
     "jtd: invalid type", "jtd: empty enum", "jtd: enum contains repeated values",
     "jtd: properties and optionalProperties share property",
     "jtd: mapping value not of properties form",
     "jtd: mapping re-specifies discriminator property",
     "jtd: mapping allows for nullable values"}

\* C12: for every combination of presence of the ten keywords of the
\* signature, on a schema whose nested schemas have admissible signatures,
\* the checker returns ErrInvalidForm exactly when the combination is not
\* one of the thirteen admissible ones, and then it returns no other error,
\* whatever other rules the schema breaks.
C12_InvalidFormIffInadmissible ==
    (IsSet(checked) /\ AdmissibleBelow(schema)) =>
       /\ checked[1] = "jtd: invalid form" <=> ~Admissible(schema)
       /\ ~Admissible(schema) => checked[1] \notin OtherCheckerErrors

\* an inadmissible combination on a schema that breaks other rules as well
C12_Witness ==
    /\ IsSet(checked) /\ AdmissibleBelow(schema)
    /\ Present(schema) = {"type", "enum", "additionalProperties"}
    /\ schema.Type \notin TypeNames /\ schema.Enum = Some(<<>>)
    /\ checked[1] = "jtd: invalid form"

\* the form whose rows of the signature table hold the keywords present on s
TableForm(s) ==
    LET here == Present(s)
    IN  CASE here = {} -> "empty"
          [] here = {"ref"} -> "ref"
          [] here = {"type"} -> "type"
          [] here = {"enum"} -> "enum"
          [] here = {"elements"} -> "elements"
          [] here = {"values"} -> "values"
          [] here = {"discriminator", "mapping"} -> "discriminator"
          [] /\ here \subseteq {"properties", "optionalProperties", "additionalProperties"}
             /\ here \cap {"properties", "optionalProperties"} # {} -> "properties"
          [] OTHER -> "none"

\* s with other definitions, metadata and nullable
Redecorated(s) ==
    {[s EXCEPT !.Definitions = d, !.Metadata = m, !.Nullable = n] :
        d \in {Nil, Some("d" :> ZeroSchema)},
        m \in {Nil, Some("a" :> JNull)},
        n \in BOOLEAN}

\* C13: on a schema that Validate accepts, Form returns, for the schema and
\* for every schema nested in it, the one form whose row of the signature
\* table matches the keywords present, and the same form whatever the
\* definitions, metadata and nullable of that schema.
C13_FormMatchesTable ==
    (IsSet(checked) /\ checked[1] = "nil" /\ IsSet(formed)) =>
       /\ formed[1].form = TableForm(formed[1].schema)
       /\ formed[1].form # "none"
       /\ \A s \in Redecorated(formed[1].schema) : Form(s) = formed[1].form

\* Form called on a nullable schema that has optional properties only, below
\* the root of a schema that Validate accepted
C13_Witness ==
    /\ IsSet(checked) /\ checked[1] = "nil" /\ IsSet(formed)
    /\ formed[1].schema # schema
    /\ formed[1].schema.Nullable
    /\ Present(formed[1].schema) = {"optionalProperties"}
    /\ formed[1].form = "properties"

\* the schema has neither properties nor optionalProperties
NoPropertiesKeyword(s) ==
    Present(s) \cap {"properties", "optionalProperties"} = {}

\* C14 as stated: a schema whose document gives additionalProperties, with
\* whatever value, and no properties and no optionalProperties (so that
\* additionalProperties is alone or next to keywords of other forms) fails
\* the checker with ErrInvalidForm.
C14_AdditionalAloneAnyValue ==
    (IsSet(checked) /\ given # "absent" /\ NoPropertiesKeyword(schema))
       => checked[1] = "jtd: invalid form"

\* C14, amended: such a schema fails with ErrInvalidForm when the document
\* gives additionalProperties as true; when it gives false the keyword
\* counts as absent, and a schema with no other keyword is accepted.
C14_AdditionalAloneTrue ==
    (IsSet(checked) /\ NoPropertiesKeyword(schema)) =>
       /\ given = "true" => checked[1] = "jtd: invalid form"
       /\ (given = "false" /\ Present(schema) \ {"additionalProperties"} = {}
             /\ ~IsSet(schema.Definitions))
             => checked[1] = "nil"

\* additionalProperties: true next to values, rejected
C14_Witness ==
    /\ IsSet(checked) /\ given = "true"
    /\ Present(schema) = {"additionalProperties", "values"}
    /\ checked[1] = "jtd: invalid form"

\* the eleven type names
ElevenTypes ==
    {"boolean", "float32", "float64", "int8", "uint8", "int16", "uint16",
     "int32", "uint32", "string", "timestamp"}

\* the rules a schema n of the tree of root obeys by itself
ObeysRules(n, root) ==
    /\ Admissible(n)
    /\ n # root => ~IsSet(n.Definitions)
    /\ IsSet(n.Ref) => IsSet(root.Definitions) /\ n.Ref[1] \in DOMAIN root.Definitions[1]
    /\ n.Type # "" => n.Type \in ElevenTypes
    /\ IsSet(n.Enum) =>
          /\ Len(n.Enum[1]) > 0
          /\ Cardinality({n.Enum[1][x] : x \in 1..Len(n.Enum[1])}) = Len(n.Enum[1])
    /\ Keys(n.Properties) \cap Keys(n.OptionalProperties) = {}
    /\ \A k \in Keys(n.Mapping) :
          LET m == n.Mapping[1][k]
          IN  /\ TableForm(m) = "properties"
              /\ ~m.Nullable
              /\ n.Discriminator \notin Keys(m.Properties) \cup Keys(m.OptionalProperties)

\* the ten errors of the checker
CheckerErrors == {"jtd: invalid form"} \cup OtherCheckerErrors

\* C15: Validate returns nil exactly when the root and every schema nested
\* in it, under definitions, elements, properties, optionalProperties,
\* values and mapping, obeys every rule of well-formedness; otherwise it
\* returns one of the ten errors of the checker.
C15_NilIffWellFormed ==
    IsSet(checked) =>
       /\ checked[1] = "nil" <=> \A n \in SubSchemas(schema) : ObeysRules(n, schema)
       /\ checked[1] # "nil" => checked[1] \in CheckerErrors

\* a schema whose only flaw is two levels below the root, rejected
C15_Witness ==
    /\ IsSet(checked) /\ checked[1] = "jtd: invalid type"
    /\ ObeysRules(schema, schema)
    /\ IsSet(schema.Values) /\ ObeysRules(schema.Values[1], schema)
    /\ \E n \in SubSchemas(schema.Values[1]) \ {schema.Values[1]} :
          ~ObeysRules(n, schema)

\* the schema is a discriminator with one mapping value, and every schema
\* below the root obeys the rules by itself
SingleBranch ==
    /\ Present(schema) = {"discriminator", "mapping"}
    /\ Cardinality(Keys(schema.Mapping)) = 1
    /\ \A n \in SubSchemas(schema) \ {schema} : ObeysRules(n, schema)
\* the one mapping value
Branch == schema.Mapping[1][CHOOSE k \in Keys(schema.Mapping) : TRUE]

\* C17: on a discriminator whose single mapping value m is well-formed by
\* itself, the checker returns ErrNonPropertiesMapping when m is not of the
\* Properties form; otherwise ErrMappingRepeatedDiscriminator when the
\* properties or the optionalProperties of m have the discriminator key;
\* otherwise ErrNullableMapping when m is nullable; and nil only when none
\* of the three applies.
C17_MappingPrecedence ==
    (IsSet(checked) /\ SingleBranch) =>
       checked[1] =
          IF TableForm(Branch) # "properties"
          THEN "jtd: mapping value not of properties form"
          ELSE IF schema.Discriminator
                     \in Keys(Branch.Properties) \cup Keys(Branch.OptionalProperties)
          THEN "jtd: mapping re-specifies discriminator property"
          ELSE IF Branch.Nullable
          THEN "jtd: mapping allows for nullable values"
          ELSE "nil"

\* a nullable mapping value of the Type form, reported as not of the
\* Properties form
C17_Witness ==
    /\ IsSet(checked) /\ SingleBranch
    /\ Branch.Nullable /\ TableForm(Branch) = "type"
    /\ checked[1] = "jtd: mapping value not of properties form"

\* every schema of the tree of s obeys the rules, s being below the root
SoundBelow(s) == \A n \in SubSchemas(s) : ObeysRules(n, schema)
\* the root is of the Properties form without definitions, a key is in both
\* properties and optionalProperties, and a sub-schema under
\* optionalProperties is ill-formed
SharedAndFlawedOptional ==
    /\ Admissible(schema) /\ ~IsSet(schema.Definitions)
    /\ Keys(schema.Properties) \cap Keys(schema.OptionalProperties) # {}
    /\ \E k \in Keys(schema.OptionalProperties) :
          ~SoundBelow(schema.OptionalProperties[1][k])

\* C19 as stated: the descent into every value of properties and of
\* optionalProperties is over before disjointness is tested, so a schema
\* with a shared key and an ill-formed sub-schema under optionalProperties
\* gets the error of the sub-schema and not ErrSharedProperty.
C19_DescentBeforeDisjointness ==
    (IsSet(checked) /\ SharedAndFlawedOptional)
       => checked[1] # "jtd: properties and optionalProperties share property"

\* C19, amended: the disjointness of a key is tested right after the descent
\* into that key's value under properties, before any value of
\* optionalProperties is descended into, so a schema with a shared key,
\* well-formed sub-schemas under properties and an ill-formed sub-schema
\* under optionalProperties gets ErrSharedProperty.
C19_DisjointnessBeforeOptional ==
    (/\ IsSet(checked) /\ SharedAndFlawedOptional
     /\ \A k \in Keys(schema.Properties) : SoundBelow(schema.Properties[1][k]))
       => checked[1] = "jtd: properties and optionalProperties share property"

\* the checker returned ErrSharedProperty on a schema of which an optional
\* property other than the shared one has an unknown type
C19_Witness ==
    /\ IsSet(checked) /\ SharedAndFlawedOptional
    /\ \A k \in Keys(schema.Properties) : SoundBelow(schema.Properties[1][k])
    /\ \E k \in Keys(schema.OptionalProperties) \ Keys(schema.Properties) :
          schema.OptionalProperties[1][k].Type \notin ElevenTypes \cup {""}
    /\ checked[1] = "jtd: properties and optionalProperties share property"

(***************************************************************************)
(* More properties of the validator.                                       *)
(***************************************************************************)
\* what the statements that the activation f runs next read, pop or index
\* is there: the value a pointer points to, the object or array a type
\* assertion gave, the instance token and the schema token to pop
AccessValid(f) ==
    LET tokens == Len(InstanceTokens)
        words == Len(Last(SchemaTokens))
    IN  CASE f.pc = "ref" -> IsSet(f.schema.Ref) /\ Len(SchemaTokens) >= 2
          [] f.pc = "elements" ->
                IsSet(f.schema.Elements) /\ IsArray(f.instance) /\ words >= 1
          [] f.pc = "elements.ret" ->
                f.i < Len(f.instance.items) /\ tokens >= 1 /\ words >= 1
          [] f.pc \in {"properties", "optionalProperties"} ->
                IsObject(f.instance) /\ words >= 1
          [] f.pc = "properties.ret" ->
                /\ f.key \in Keys(f.schema.Properties) \cap DOMAIN f.instance.fields
                /\ tokens >= 1 /\ words >= 2
          [] f.pc = "optionalProperties.ret" ->
                /\ f.key \in Keys(f.schema.OptionalProperties)
                               \cap DOMAIN f.instance.fields
                /\ tokens >= 1 /\ words >= 2
          [] f.pc = "additional" -> IsObject(f.instance)
          [] f.pc = "values" -> IsSet(f.schema.Values) /\ IsObject(f.instance) /\ words >= 1
          [] f.pc = "values.ret" -> tokens >= 1 /\ words >= 1
          [] f.pc = "discriminator" -> IsObject(f.instance) /\ words >= 2
          [] OTHER -> TRUE

\* a ref that names no definition of the root is validated as the schema
\* without keywords
MissingAsEmpty ==
    \A x \in 1..(Len(stack) - 1) :
       (stack[x].pc = "ref"
          /\ ~(IsSet(Root.Definitions)
                 /\ stack[x].schema.Ref[1] \in DOMAIN Root.Definitions[1]))
       => NoFormKeyword(stack[x + 1].schema) /\ ~stack[x + 1].schema.Nullable

\* no step of a validation in progress makes an invalid access
NoInvalidAccess ==
    (active /\ ~crashed) =>
       /\ Len(SchemaTokens) >= 1
       /\ Running => AccessValid(Top)
       /\ MissingAsEmpty

\* C16: on every schema, the ones the checker rejects included, a validation
\* with maxDepth > 0 makes no invalid access and terminates: a ref to a
\* missing definition is validated as the empty schema, schema tokens are
\* pushed onto a top frame that exists, and nothing is popped from an empty
\* instance stack, an empty frame or an empty stack of frames.
C16_TotalOnAnySchema ==
    /\ [](opts.MaxDepth > 0 => NoInvalidAccess /\ ~crashed)
    /\ (opts.MaxDepth > 0 /\ active) ~> JustReturned

\* below a ref to a missing definition, on a schema the checker rejects
C16_Witness ==
    /\ opts.MaxDepth > 0 /\ Running
    /\ Validate(schema) # {ErrNil}
    /\ Len(stack) >= 3
    /\ stack[Len(stack) - 1].pc = "ref"
    /\ ~HasKey(Root.Definitions, stack[Len(stack) - 1].schema.Ref[1])

\* validate is about to run the case of the Ref form
RefDispatch ==
    /\ Running /\ Top.pc = "validate"
    /\ ~(Top.schema.Nullable /\ IsNull(Top.instance))
    /\ IsSet(Top.schema.Ref)

InnerRef == stack[CHOOSE x \in 1..Len(stack) :
                     /\ stack[x].pc = "ref"
                     /\ \A y \in (x + 1)..Len(stack) : stack[y].pc # "ref"]
\* a ref is being followed
InRef == \E x \in 1..Len(stack) : stack[x].pc = "ref"

\* C20: an error emitted while the ref to a definition d is followed, and no
\* deeper ref, has a schema path that starts with "definitions", d and does
\* not go on from the path that led to the ref; while the ref is followed
\* the frame of its caller lies unchanged below, and when the ref returns
\* normally that frame is the top one again, with the contents it had.
C20_RefPathsFresh ==
    [][/\ (InRef /\ Len(Errors') > Len(Errors)) =>
            LET d == InnerRef.schema.Ref[1]
                path == Errors'[Len(Errors')].SchemaPath
            IN  /\ IsPrefix(<<"definitions", d>>, path)
                /\ InnerRef.st0 # <<>>
                      => ~IsPrefix(InnerRef.st0 \o <<"definitions", d>>, path)
       /\ \A x \in 1..Len(stack) :
             stack[x].pc = "ref" =>
                /\ Len(SchemaTokens) > stack[x].nf0
                /\ SchemaTokens[stack[x].nf0] = stack[x].st0
       /\ (Running /\ Top.pc = "ref" /\ stack' = Front(stack) /\ err' = "nil") =>
             /\ Len(SchemaTokens') = Top.nf0
             /\ Last(SchemaTokens') = Top.st0]_vars

\* a ref reached through an optional property, below another ref, has
\* returned normally after an error was emitted inside it
C20_Witness ==
    /\ Running /\ Top.pc = "optionalProperties.ret"
    /\ IsSet(Top.schema.OptionalProperties[1][Top.key].Ref)
    /\ Top.st0 # <<>>
    /\ Last(SchemaTokens) = Top.st0 \o <<"optionalProperties", Top.key>>
    /\ \E x \in 1..Len(Errors) :
          /\ IsPrefix(Append(Top.it0, Top.key), Errors[x].InstancePath)
          /\ IsPrefix(<<"definitions", Top.schema.OptionalProperties[1][Top.key].Ref[1]>>,
                      Errors[x].SchemaPath)

\* validate is about to run the case of the Discriminator form
DiscriminatorDispatch ==
    /\ Running /\ Top.pc = "validate"
    /\ ~(Top.schema.Nullable /\ IsNull(Top.instance))
    /\ ~IsSet(Top.schema.Ref) /\ Top.schema.Type = "" /\ ~IsSet(Top.schema.Enum)
    /\ ~IsSet(Top.schema.Elements) /\ ~IsSet(Top.schema.Properties)
    /\ ~IsSet(Top.schema.OptionalProperties) /\ ~IsSet(Top.schema.Values)
    /\ IsSet(Top.schema.Mapping)

\* the step emits the one error e
EmitsOnly(e) == Errors' = Append(Errors, e)

\* C21: the case of the Discriminator form with key d emits exactly one
\* error when the instance is not an object (schema path + "discriminator",
\* instance path as it is), when d is absent (the same), when the value of
\* d is not a string (schema path + "discriminator", instance path + d) and
\* when it is a string that is not in the mapping (schema path + "mapping",
\* instance path + d).  When the value t is in the mapping, the
\* discriminator emits nothing and the branch is validated on the same
\* instance with schema path + "mapping", t.
C21_DiscriminatorPaths ==
    [][/\ DiscriminatorDispatch =>
            LET d == Top.schema.Discriminator
                inst == Top.instance
                at == InstanceTokens
                here == Last(SchemaTokens)
            IN  IF inst.kind # "object" \/ d \notin DOMAIN inst.fields
                THEN EmitsOnly(ErrorAt(at, here \o <<"discriminator">>))
                ELSE IF inst.fields[d].kind # "string"
                THEN EmitsOnly(ErrorAt(at \o <<d>>, here \o <<"discriminator">>))
                ELSE IF inst.fields[d].s \notin DOMAIN Top.schema.Mapping[1]
                THEN EmitsOnly(ErrorAt(at \o <<d>>, here \o <<"mapping">>))
                ELSE LET t == inst.fields[d].s
                     IN  /\ Errors' = Errors
                         /\ Len(stack') = Len(stack) + 1
                         /\ stack'[Len(stack')].pc = "validate"
                         /\ stack'[Len(stack')].schema = Top.schema.Mapping[1][t]
                         /\ stack'[Len(stack')].instance = inst
                         /\ InstanceTokens' = at
                         /\ Len(SchemaTokens') = Len(SchemaTokens)
                         /\ SchemaTokens'[Len(SchemaTokens')] = here \o <<"mapping", t>>
       /\ (Running /\ Top.pc = "discriminator") => Errors' = Errors]_vars

\* below the root, a tag that is a string the mapping does not have was
\* reported
C21_Witness ==
    /\ Settings = NoLimits /\ active
    /\ IsSet(schema.Values)
    /\ \E x \in 1..Len(Errors) :
          Errors[x] = ErrorAt(<<"q", "k">>, <<"values", "mapping">>)
    /\ \E x \in 1..Len(Errors) :
          Errors[x] = ErrorAt(<<"p", "k">>, <<"values", "discriminator">>)

\* the keys of the object of f that neither properties nor
\* optionalProperties declare
Undeclared(f) ==
    DOMAIN f.instance.fields
       \ (Keys(f.schema.Properties) \cup Keys(f.schema.OptionalProperties))
\* the key is the parent tag of f
IsTag(f, k) == f.parentTag = <<k>>

\* C22: on an object, a Properties form whose additionalProperties is not
\* true emits, for every key of the object that is in neither properties
\* nor optionalProperties and is not the parent tag, exactly one error, at
\* the object's path extended by the key and at the path of the Properties
\* schema itself; for the parent tag and for declared keys the sweep emits
\* nothing; when additionalProperties is true there is no sweep and no such
\* error.
C22_AdditionalPaths ==
    [][/\ Settings = NoLimits =>
            \A x \in 1..Len(stack) :
               InProperties(stack[x]) =>
                  \A k \in Undeclared(stack[x]) :
                     Count(ErrorAt(stack[x].it0 \o <<k>>, stack[x].st0))
                        = IF /\ stack[x].pc = "additional"
                             /\ k \notin stack[x].todo
                             /\ ~IsTag(stack[x], k)
                          THEN 1 ELSE 0
       /\ (Running /\ Top.pc = "additional") =>
             /\ ~Top.schema.AdditionalProperties
             /\ InstanceTokens = Top.it0 /\ Last(SchemaTokens) = Top.st0
             /\ \/ Errors' = Errors
                \/ \E k \in Undeclared(Top) \cap Top.todo :
                      /\ ~IsTag(Top, k)
                      /\ EmitsOnly(ErrorAt(Top.it0 \o <<k>>, Top.st0))
       /\ (Running /\ InProperties(Top) /\ Top.schema.AdditionalProperties
              /\ Top.pc = "optionalProperties" /\ Top.todo = {}) =>
             /\ Errors' = Errors
             /\ stack' = Front(stack)]_vars

\* the sweep of an object below the root is over and has reported a key
C22_Witness ==
    /\ Settings = NoLimits /\ Running
    /\ Top.pc = "additional" /\ Top.todo = {}
    /\ Top.it0 # <<>> /\ Top.st0 # <<>>
    /\ \E k \in Undeclared(Top) : Count(ErrorAt(Top.it0 \o <<k>>, Top.st0)) = 1

\* the object whose property x has a key named as the discriminator
DeepTaggedInstance ==
    JObject(("k" :> JString("a")) @@ ("x" :> JObject("k" :> JString("b"))))

\* C23: an activation of validate has a parent tag exactly when it is the
\* call that the Discriminator case makes on a mapping branch, and the tag
\* is then the discriminator key; the top-level call and the calls made for
\* ref, elements, properties, optionalProperties and values have none.  So
\* a Properties schema one level below a branch flags a key named as the
\* discriminator: on the branch {properties: {x: {properties: {}}}} the
\* instance {k: "a", x: {k: "b"}} has the one error at [x k].
C23_ParentTagOneLevel ==
    /\ (active /\ ~crashed) =>
          \A x \in 1..Len(stack) :
             IF x > 1 /\ stack[x - 1].pc = "discriminator"
             THEN stack[x].parentTag = <<stack[x - 1].schema.Discriminator>>
             ELSE stack[x].parentTag = <<>>
    /\ \A c \in Returned :
          (schema = DeepTaggedSchema /\ instance = DeepTaggedInstance
              /\ SettingsOfCall(c) = NoLimits)
          => calls[c] =
                [errors |-> <<ErrorAt(<<"x", "k">>,
                                      <<"mapping", "a", "properties", "x">>)>>,
                 fatal |-> "nil"]

\* the sweep one level below a branch has flagged the key named as the
\* discriminator
C23_Witness ==
    /\ Running /\ Len(stack) >= 3
    /\ Top.pc = "additional" /\ Top.todo = {}
    /\ stack[Len(stack) - 1].parentTag = <<"k">>
    /\ stack[Len(stack) - 2].pc = "discriminator"
    /\ Top.parentTag = <<>>
    /\ Errors = <<ErrorAt(Top.it0 \o <<"k">>, Top.st0)>>

\* a <= b on numbers without fraction, kept as hi * 2^16 + lo
AtMost(a, b) == a.hi < b.hi \/ (a.hi = b.hi /\ a.lo <= b.lo)

\* the least and the greatest value of each integer type, as hi * 2^16 + lo
IntRange(t) ==
    CASE t = "int8" -> [min |-> [hi |-> -1, lo |-> 65536 - 128], max |-> [hi |-> 0, lo |-> 127]]
      [] t = "uint8" -> [min |-> [hi |-> 0, lo |-> 0], max |-> [hi |-> 0, lo |-> 255]]
      [] t = "int16" -> [min |-> [hi |-> -1, lo |-> 65536 - 32768], max |-> [hi |-> 0, lo |-> 32767]]
      [] t = "uint16" -> [min |-> [hi |-> 0, lo |-> 0], max |-> [hi |-> 0, lo |-> 65535]]
      [] t = "int32" -> [min |-> [hi |-> -32768, lo |-> 0], max |-> [hi |-> 32767, lo |-> 65535]]
      [] t = "uint32" -> [min |-> [hi |-> 0, lo |-> 0], max |-> [hi |-> 65535, lo |-> 65535]]

\* the schema is one of the integer types and nothing else
IsIntegerType(s) ==
    /\ s.Type \in {"int8", "uint8", "int16", "uint16", "int32", "uint32"}
    /\ Present(s) = {"type"} /\ ~s.Nullable

\* the instance is a number without fraction within the range of type t
Fits(j, t) ==
    /\ j.kind = "number" /\ j.n.frac = 0
    /\ AtMost(IntRange(t).min, j.n) /\ AtMost(j.n, IntRange(t).max)

\* C24: for each integer type a number is accepted exactly when it has no
\* fractional part and lies within the bounds of the type, both included;
\* every other number and every instance that is not a number gets exactly
\* one error, whose schema path ends in "type".
C24_IntegerRanges ==
    \A c \in Returned :
       IsIntegerType(schema) =>
          calls[c] = IF Fits(instance, schema.Type) THEN NoError
                     ELSE [errors |-> <<ErrorAt(<<>>, <<"type">>)>>, fatal |-> "nil"]

\* the greatest uint32 was accepted under a limit on errors
C24_Witness ==
    /\ schema.Type = "uint32" /\ IsIntegerType(schema)
    /\ instance.kind = "number" /\ instance.n = [hi |-> 65535, lo |-> 65535, frac |-> 0]
    /\ opts.MaxErrors = 1
    /\ Len(calls) = 2 /\ calls[1] = NoError

\* the innermost activation returns nil with this step
ReturnsNil ==
    /\ Running
    /\ stack' = Front(stack)
    /\ err' = "nil" /\ ~crashed'

\* C25: a call of validate that returns nil leaves the instance tokens, the
\* number of schema frames and the tokens of every frame as they were when
\* it was entered: the frames below the one it was entered on are never
\* touched, and the tokens it pushed are popped.  After a top-level run that
\* was not aborted the instance stack is empty and there is one schema
\* frame, which is empty.
C25_StacksRestored ==
    [][/\ ReturnsNil =>
            /\ InstanceTokens' = Top.it0
            /\ Len(SchemaTokens') = Top.nf0
            /\ SchemaTokens'[Top.nf0] = Top.st0
            /\ \A j \in 1..(Top.nf0 - 1) : SchemaTokens'[j] = SchemaTokens[j]
       /\ (active /\ ~crashed) =>
             \A x \in 1..Len(stack) :
                \A j \in 1..(stack[x].nf0 - 1) :
                   \E y \in 1..(x - 1) :
                      /\ stack[y].pc = "ref" /\ stack[y].nf0 = j
                      /\ SchemaTokens[j] = stack[y].st0
       /\ (active /\ stack = <<>> /\ err = "nil" /\ ~active') =>
             /\ InstanceTokens = <<>>
             /\ SchemaTokens = << <<>> >>
             /\ InstanceTokens' = <<>>
             /\ SchemaTokens' = << <<>> >>]_vars

\* a ref below the root is back from its definition, which reported errors
\* and returned nil
C25_Witness ==
    /\ Running /\ Top.pc = "ref"
    /\ Top.it0 # <<>> /\ Top.st0 # <<>> /\ Top.nf0 >= 2
    /\ InstanceTokens = Top.it0
    /\ Len(SchemaTokens) = Top.nf0 + 1
    /\ \E x \in 1..Len(Errors) :
          /\ IsPrefix(Top.it0, Errors[x].InstancePath)
          /\ Len(Errors[x].InstancePath) > Len(Top.it0)
          /\ IsPrefix(<<"definitions", Top.schema.Ref[1]>>, Errors[x].SchemaPath)

\* how many times each error is in the list
BagOf(errors) ==
    [e \in {errors[x] : x \in 1..Len(errors)} |->
        Cardinality({x \in 1..Len(errors) : errors[x] = e})]

\* C26: with MaxErrors = 0 two validations of the same instance against the
\* same schema, whatever the orders in which they iterate over the maps of
\* the schema and over the objects of the instance, have the same fatal
\* result and the same errors, each as many times; only the order of the
\* list may differ.
C26_OrderIndependent ==
    (Len(calls) = 2 /\ opts.MaxErrors = 0) =>
       /\ calls[1].fatal = calls[2].fatal
       /\ BagOf(calls[1].errors) = BagOf(calls[2].errors)
       /\ Len(calls[1].errors) = Len(calls[2].errors)

\* two validations that iterated in different orders and returned the same
\* three or more errors in different orders
C26_Witness ==
    /\ Len(calls) = 2 /\ opts.MaxErrors = 0
    /\ ~iter.same
    /\ Len(calls[1].errors) >= 3
    /\ calls[1].errors # calls[2].errors

====
